---- MODULE Spec2Model ----
(***************************************************************************)
(* Model of the enviromoon-node telemetry gateway (src/api/index.js):      *)
(* the Express application that a sensor device talks to over HTTP.        *)
(*                                                                         *)
(* A request runs as a chain of callbacks on Node's single thread.  The    *)
(* connection middleware awaits connectDB() when dbConnected is not set;   *)
(* when that settles (or at once, when dbConnected is set) it calls next() *)
(* and the route handler runs to its first await of a store call, and the  *)
(* rest of the handler runs when the store call settles.  Nothing          *)
(* interleaves with a callback, so each callback is one action of the      *)
(* model; the requests waiting on connectDB() or on the store are the      *)
(* members of the bag reqs.                                                *)
(***************************************************************************)
EXTENDS Integers, Sequences, FiniteSets, Bags, TLC

\* ---------------------------------------------------------------- bounds
MaxInflight == 2        \* requests that may be in flight at the same time
MaxRequests == 3        \* requests accepted in one run
MaxTicks == 3           \* advances of the wall clock in one run
MaxHostEvents == 2      \* serial lines and timer ticks of the serial host in one run

\* ------------------------------------------------------- JavaScript values
\* A JavaScript value is a tagged record, so that null, undefined, the empty
\* string and 0 stay distinct values with their own truthiness.
JsNull == [t |-> "null"]
JsUndefined == [t |-> "undefined"]
JsNaN == [t |-> "NaN"]
JsStr(s) == [t |-> "string", v |-> s]
JsNum(n) == [t |-> "number", v |-> n]
JsDate(ms) == [t |-> "date", v |-> ms]
\* A string whose characters the code looks at, as the sequence of them.
JsChars(cs) == [t |-> "chars", v |-> cs]

\* ToBoolean: what `if (x)`, `!x` and `x || y` test.
Truthy(x) ==
  CASE x.t = "string" -> x.v # ""
    [] x.t = "chars" -> x.v # <<>>
    [] x.t = "number" -> x # JsNum(0)
    [] x.t = "date" -> TRUE
    [] x.t = "object" -> TRUE
    [] OTHER -> FALSE

\* a || b
JsOr(a, b) == IF Truthy(a) THEN a ELSE b

VARIABLES
  now,               \* the wall clock, in ms (what new Date() reads)
  storeUp,           \* whether the MongoDB deployment can be reached
  dbConnected,       \* api/index.js:14
  cachedConnection,  \* whether mongoose.connect() has succeeded (unnamed/part_000:7)
  commandQueue,      \* api/index.js:66, the single pending command or null
  latestSensorData,  \* api/index.js:69
  latestDeviceStatus,\* api/index.js:72
  connectionStatus,  \* api/index.js:75-82
  sensorLog,         \* the SensorData collection, in insertion order
  statusLog,         \* the DeviceStatus collection, in insertion order
  alertLog,          \* the Alert collection, in insertion order
  host,              \* the serial host process (server.js)
  arduino,           \* the device on the serial port (the sketch of api/index.js:578-711)
  reqs,              \* the bag of requests waiting on connectDB() or on the store
  nreq,              \* requests accepted so far
  nresp,             \* responses sent so far
  lastResp,          \* the response sent last
  lastEnq,           \* the command of the last successful enqueue, or null
  polledSince,       \* whether a poll was answered since the last successful enqueue
  pollsNonEmpty,     \* polls answered so far with a non-null command
  overwritten        \* what the last successful enqueue found in the slot

vars == <<now, storeUp, dbConnected, cachedConnection, host, arduino, alertLog, commandQueue, latestSensorData, latestDeviceStatus,
          connectionStatus, sensorLog, statusLog, reqs, nreq, nresp, lastResp,
          lastEnq, polledSince, pollsNonEmpty, overwritten>>

store == <<sensorLog, statusLog, alertLog>>
caches == <<latestSensorData, latestDeviceStatus>>
mailboxHistory == <<lastEnq, polledSince, pollsNonEmpty, overwritten>>

\* const CONNECTION_TIMEOUT = 60000
CONNECTION_TIMEOUT == 60000

\* The clock advances in steps of half the timeout, so that ages of 30 s,
\* 60 s and 90 s all occur.
TickMs == CONNECTION_TIMEOUT \div 2

\* A request: where it stands (arriving, connecting, saving), its route, its
\* input (or, while saving, the document being inserted), and sawCmd.
Req(pc, kind, body, sawCmd) ==
  [pc |-> pc, kind |-> kind, body |-> body, sawCmd |-> sawCmd]

NoResp == [kind |-> "none", status |-> 0]

\* ------------------------------------------------------------ request inputs
\* req.body.command of POST /api/device/command
CommandInputs == {JsUndefined, JsStr(""), JsStr("LED:ON"), JsStr("READ")}

\* req.body.interval of POST /api/settings/sampling-interval (seconds)
IntervalInputs == {JsUndefined, JsNum(0), JsNum(1), JsNum(2)}

\* req.body of POST /api/sensors/data
DataInputs ==
  { [temperature |-> JsNum(22), humidity |-> JsNum(55), ldr |-> JsNum(300)],
    [temperature |-> JsNum(23), humidity |-> JsNum(56), ldr |-> JsNum(301)],
    [temperature |-> JsNum(22), humidity |-> JsNum(55), ldr |-> JsUndefined],
    [temperature |-> JsNum(22), humidity |-> JsUndefined, ldr |-> JsNum(300)],
    [temperature |-> JsUndefined, humidity |-> JsNum(55), ldr |-> JsNum(300)] }

\* The two bodies that the device sends in the runs that follow its
\* connectivity: a reading, and a reading without its light level.
SampleInputs ==
  { [temperature |-> JsNum(22), humidity |-> JsNum(55), ldr |-> JsNum(300)],
    [temperature |-> JsNum(22), humidity |-> JsNum(55), ldr |-> JsUndefined] }

\* req.body of POST /api/device/status-update
StatusInputs ==
  { [t |-> "object", uptime |-> 120, ledState |-> TRUE],
    [t |-> "object", uptime |-> 180, ledState |-> FALSE] }

\* The status that the device sends in the runs that follow its connectivity.
SampleStatusInputs == { [t |-> "object", uptime |-> 120, ledState |-> TRUE] }

\* ------------------------------------------------------------------- Init
\* A float of the sketch: not a number, or a number held in hundredths.
Float(h) == [nan |-> FALSE, hundredths |-> h]

\* The device when setup() has run: both switches on, the default sampling
\* interval, and the readings that setup() took.
ArduinoInit ==
  [readTempHumidity |-> TRUE, readLight |-> TRUE,
   temperature |-> Float(2400), humidity |-> Float(4000), ldrValue |-> 512,
   samplingInterval |-> 10000, steps |-> 0, printed |-> <<>>]

\* let SAVE_INTERVAL = 10 * 60 * 1000
SAVE_INTERVAL == 10 * 60 * 1000

\* server.js when its serial port, its parser and its timer have just been set
\* up, connectDB() has not settled yet and no line has been read.  delay is
\* the delay that setInterval() was given and due the time of the timer's next
\* firing; since is the time of the last periodic save or, when it is later,
\* of the last update of the interval (the start, before either).
HostInit ==
  [running |-> TRUE, connected |-> FALSE, connecting |-> TRUE,
   latestSensorData |-> JsNull, saving |-> EmptyBag, events |-> 0,
   received |-> 0,
   SAVE_INTERVAL |-> SAVE_INTERVAL, delay |-> SAVE_INTERVAL,
   due |-> SAVE_INTERVAL, since |-> 0]

Init ==
  /\ now = 0
  /\ storeUp \in BOOLEAN
  /\ dbConnected = FALSE
  /\ cachedConnection = FALSE
  /\ host = HostInit
  /\ arduino = ArduinoInit
  /\ alertLog = <<>>
  /\ commandQueue = JsNull
  /\ latestSensorData = JsNull
  /\ latestDeviceStatus = JsNull
  /\ connectionStatus = [lastDataReceived |-> JsNull,
                         lastStatusUpdate |-> JsNull,
                         lastCommandPoll |-> JsNull,
                         totalDataReceived |-> 0,
                         totalCommandsSent |-> 0,
                         isConnected |-> FALSE]
  /\ sensorLog = <<>>
  /\ statusLog = <<>>
  /\ reqs = EmptyBag
  /\ nreq = 0
  /\ nresp = 0
  /\ lastResp = NoResp
  /\ lastEnq = JsNull
  /\ polledSince = FALSE
  /\ pollsNonEmpty = 0
  /\ overwritten = JsNull

\* ------------------------------------------------------ request life cycle
\* The requests in flight once q, if it was waiting, has left them.
Without(q) == IF q.pc = "arriving" THEN reqs ELSE reqs (-) SetToBag({q})

\* res.json(...) / res.status(...).json(...): request q is answered.
Respond(q, resp) ==
  /\ reqs' = Without(q)
  /\ nresp' = nresp + 1
  /\ lastResp' = resp

\* A store call settles with success when the deployment can be reached over
\* an established connection, and with an error (at once, or when mongoose
\* gives up buffering the call) when it cannot.
StoreAnswers == storeUp /\ cachedConnection

\* The MongoDB deployment becomes unreachable, or reachable again.
StoreFlip ==
  /\ storeUp' = ~storeUp
  /\ UNCHANGED <<now, host, arduino, dbConnected, cachedConnection, commandQueue, caches,
                 connectionStatus, store, reqs, nreq, nresp, lastResp,
                 mailboxHistory>>

\* The wall clock advances.
Tick ==
  /\ now < MaxTicks * TickMs
  /\ now' = now + TickMs
  /\ UNCHANGED <<storeUp, host, arduino, dbConnected, cachedConnection, commandQueue, caches, connectionStatus, store,
                 reqs, nreq, nresp, lastResp, mailboxHistory>>

\* Another request can be taken on.
Room == BagCardinality(reqs) < MaxInflight /\ nreq < MaxRequests

\* A request arrives while dbConnected is not set: the middleware calls
\* connectDB() and awaits it.  sawCmd records, for a poll, whether a command
\* was pending when the poll arrived.
Accept(kind, body) ==
  /\ ~dbConnected
  /\ Room
  /\ nreq' = nreq + 1
  /\ reqs' = reqs (+) SetToBag({Req("connecting", kind, body,
                                    kind = "poll" /\ Truthy(commandQueue))})
  /\ UNCHANGED <<storeUp, host, arduino, now, dbConnected, cachedConnection, commandQueue, caches, connectionStatus,
                 store, nresp, lastResp, mailboxHistory>>

\* The requests of route `kind` with an input of `inputs` whose handler can
\* start now: one that arrives now, and those waiting on connectDB().
Entering(kind, inputs) ==
  { Req("arriving", kind, b, FALSE) : b \in inputs }
    \cup { q \in BagToSet(reqs) : q.pc = "connecting" /\ q.kind = kind }

\* An ensureDBConnection() that sets dbConnected whether connectDB() returned
\* or threw.
ensureDBConnection_Once(ok) ==
  [dbConnected |-> TRUE, cachedConnection |-> cachedConnection \/ ok]

\* ensureDBConnection(), after `await connectDB()`: connectDB() returned the
\* connection it made or found (ok), and dbConnected is set, or it threw, and
\* the catch block clears dbConnected.
ensureDBConnection(ok) ==
  [dbConnected |-> ok, cachedConnection |-> cachedConnection \/ ok]

\* The middleware calls next() for request q and its handler starts: either q
\* arrives while dbConnected is set, or q's connectDB() settles, with success
\* (dbConnected = true) or in the catch block (dbConnected = false).
Enter(q) ==
  \/ /\ q.pc = "arriving"
     /\ dbConnected
     /\ Room
     /\ nreq' = nreq + 1
     /\ UNCHANGED <<dbConnected, cachedConnection>>
  \/ /\ q.pc = "connecting"
     /\ \E ok \in {storeUp} :
          /\ dbConnected' = ensureDBConnection(ok).dbConnected
          /\ cachedConnection' = ensureDBConnection(ok).cachedConnection
     /\ UNCHANGED nreq

\* The routes without input.
NoInput == {JsUndefined}

\* A client enqueues a command: POST /api/device/command or one of the
\* shortcut routes.
EnqueueKinds == {"read", "tempEnable", "tempDisable", "lightEnable",
                 "lightDisable", "statusRequest"}

ArriveEnqueue ==
  \/ \E kind \in EnqueueKinds : Accept(kind, JsUndefined)
  \/ \E c \in CommandInputs : Accept("command", c)
  \/ \E i \in IntervalInputs : Accept("interval", i)

\* The device polls for a command.
ArrivePoll == Accept("poll", JsUndefined)

\* The device pushes a reading.
ArriveData == \E d \in DataInputs : Accept("data", d)
ArriveSample == \E d \in SampleInputs : Accept("data", d)

\* The device pushes its status.
ArriveStatus == \E s \in StatusInputs : Accept("statusUpdate", s)
ArriveStatusSample == \E s \in SampleStatusInputs : Accept("statusUpdate", s)

\* A client asks for the connectivity summary.
ArriveConnection == Accept("connection", JsUndefined)

\* ---------------------------------------------------------- command mailbox
\* A validation that only looks for an absent command: command === undefined.
CommandRejected_OnlyUndefined(c) == c = JsUndefined

\* if (!command) return res.status(400)
CommandRejected(c) == ~Truthy(c)

\* An enqueue that keeps a command that is still pending.
EnqueueQueue_KeepPending(q, c) == IF Truthy(q) THEN q ELSE c

\* commandQueue = command: the slot after an enqueue of c over q.
EnqueueQueue(q, c) == c

\* The enqueue of cmd that request q asks for is done and answered.
Enqueue(q, cmd) ==
  /\ commandQueue' = EnqueueQueue(commandQueue, cmd)
  /\ overwritten' = commandQueue
  /\ lastEnq' = cmd
  /\ polledSince' = FALSE
  /\ Respond(q, [kind |-> q.kind, status |-> 200, enqueued |-> cmd])
  /\ UNCHANGED <<storeUp, host, arduino, now, caches, connectionStatus, store, pollsNonEmpty>>

\* Request q is answered with a client error and nothing else happens.
Reject(q) ==
  /\ Respond(q, [kind |-> q.kind, status |-> 400, body |-> q.body])
  /\ UNCHANGED <<storeUp, host, arduino, now, commandQueue, caches, connectionStatus, store,
                 mailboxHistory>>

\* POST /api/device/command
QueueCommand ==
  \E q \in Entering("command", CommandInputs) :
    /\ Enter(q)
    /\ IF CommandRejected(q.body) THEN Reject(q) ELSE Enqueue(q, q.body)

\* POST /api/sensors/read
ReadCommand ==
  \E q \in Entering("read", NoInput) : Enter(q) /\ Enqueue(q, JsStr("READ"))

\* if (!interval || interval < 1) return res.status(400)
IntervalRejected(i) == ~Truthy(i) \/ i.v < 1

\* `INTERVAL:${interval * 1000}`
IntervalCommand(i) == JsStr("INTERVAL:" \o ToString(i.v * 1000))

\* POST /api/settings/sampling-interval
SamplingInterval ==
  \E q \in Entering("interval", IntervalInputs) :
    /\ Enter(q)
    /\ IF IntervalRejected(q.body)
       THEN Reject(q)
       ELSE Enqueue(q, IntervalCommand(q.body))

\* POST /api/sensors/temp/enable
TempEnable ==
  \E q \in Entering("tempEnable", NoInput) : Enter(q) /\ Enqueue(q, JsStr("TEMP:ON"))

\* POST /api/sensors/temp/disable
TempDisable ==
  \E q \in Entering("tempDisable", NoInput) : Enter(q) /\ Enqueue(q, JsStr("TEMP:OFF"))

\* POST /api/sensors/light/enable
LightEnable ==
  \E q \in Entering("lightEnable", NoInput) : Enter(q) /\ Enqueue(q, JsStr("LIGHT:ON"))

\* POST /api/sensors/light/disable
LightDisable ==
  \E q \in Entering("lightDisable", NoInput) : Enter(q) /\ Enqueue(q, JsStr("LIGHT:OFF"))

\* POST /api/device/status-request
StatusRequest ==
  \E q \in Entering("statusRequest", NoInput) : Enter(q) /\ Enqueue(q, JsStr("STATUS"))

\* A poll that reads the slot after it has cleared it.
PollCommand_ReadAfterClear(q) == JsNull

\* The command a poll answers with: const command = commandQueue, or null.
PollCommand(q) == IF Truthy(q) THEN q ELSE JsNull

\* A poll that does not clear the slot.
PollQueue_NotCleared(q) == q

\* The slot after a poll: commandQueue = null when a command was pending.
PollQueue(q) == IF Truthy(q) THEN JsNull ELSE q

\* A poll that counts itself whether or not it sends a command.
PollCount_EveryPoll(q, n) == n + 1

\* connectionStatus.totalCommandsSent++ in the branch that sends a command.
PollCount(q, n) == IF Truthy(q) THEN n + 1 ELSE n

\* GET /api/device/commands.  The answer's `concurrent` says that a command was
\* pending when this poll arrived and the poll then waited in the middleware.
PollCommands ==
  \E q \in Entering("poll", NoInput) :
    /\ Enter(q)
    /\ connectionStatus' =
         [connectionStatus EXCEPT
            !.lastCommandPoll = JsDate(now),
            !.isConnected = TRUE,
            !.totalCommandsSent = PollCount(commandQueue, @)]
    /\ commandQueue' = PollQueue(commandQueue)
    /\ Respond(q, [kind |-> "poll", status |-> 200,
                   command |-> PollCommand(commandQueue),
                   concurrent |-> q.sawCmd])
    /\ polledSince' = TRUE
    /\ pollsNonEmpty' =
         IF PollCommand(commandQueue) # JsNull THEN pollsNonEmpty + 1
         ELSE pollsNonEmpty
    /\ UNCHANGED <<storeUp, host, arduino, now, caches, store, lastEnq, overwritten>>

\* ---------------------------------------------------------------- ingestion
\* A test that forgets the humidity.
DataMissing_NoHumidity(b) ==
  \/ b.temperature = JsUndefined
  \/ b.ldr = JsUndefined

\* temperature === undefined || humidity === undefined || ldr === undefined
DataMissing(b) ==
  \/ b.temperature = JsUndefined
  \/ b.humidity = JsUndefined
  \/ b.ldr = JsUndefined

\* parseFloat / parseInt of a request field: a number stays as it is (the
\* numbers of the model are whole), anything else that is not numeric is NaN.
ParseFloat(x) == IF x.t = "number" THEN x ELSE JsNaN
ParseInt(x) == IF x.t = "number" THEN x ELSE JsNaN

\* The object assigned to latestSensorData.
SensorReading(b) ==
  [t |-> "object",
   temperature |-> ParseFloat(b.temperature),
   humidity |-> ParseFloat(b.humidity),
   ldr |-> ParseInt(b.ldr)]

\* new SensorData(reading): the schema's timestamp defaults to Date.now.
SensorDocument(reading, time) ==
  [temperature |-> reading.temperature,
   humidity |-> reading.humidity,
   ldr |-> reading.ldr,
   timestamp |-> time]

\* new DeviceStatus(statusData)
StatusDocument(statusData, time) == [status |-> statusData, timestamp |-> time]

\* new Alert({ message })
AlertDocument(message, time) == [message |-> message, timestamp |-> time]

\* A save that replaces the newest document of the collection.
Insert_ReplaceNewest(log, doc) ==
  IF log = <<>> THEN <<doc>> ELSE [log EXCEPT ![Len(log)] = doc]

\* doc.save() of a new document: the collection after the insert.
Insert(log, doc) == Append(log, doc)

\* Request q awaits the insert of doc.
AwaitSave(q, doc) ==
  reqs' = Without(q) (+) SetToBag({Req("saving", q.kind, doc, FALSE)})

\* The requests of route `kind` whose insert is pending.
Saving(kind) == { q \in BagToSet(reqs) : q.pc = "saving" /\ q.kind = kind }

\* POST /api/sensors/data, up to `await newEntry.save()`
SubmitDataOf(inputs) ==
  \E q \in { x \in Entering("data", inputs) : x.body \in inputs } :
    /\ Enter(q)
    /\ IF DataMissing(q.body)
       THEN Reject(q)
       ELSE /\ latestSensorData' = SensorReading(q.body)
            /\ connectionStatus' =
                 [connectionStatus EXCEPT
                    !.lastDataReceived = JsDate(now),
                    !.totalDataReceived = @ + 1,
                    !.isConnected = TRUE]
            /\ AwaitSave(q, SensorDocument(SensorReading(q.body), now))
            /\ UNCHANGED <<storeUp, host, arduino, now, commandQueue, latestDeviceStatus, store,
                           nresp, lastResp, mailboxHistory>>

SubmitData == SubmitDataOf(DataInputs)
SubmitSample == SubmitDataOf(SampleInputs)

\* POST /api/sensors/data, after `await newEntry.save()`: the insert succeeded
\* (ok) or threw into the catch block.
DataSaved ==
  \E q \in Saving("data"), ok \in {StoreAnswers} :
    /\ sensorLog' = IF ok THEN Insert(sensorLog, q.body) ELSE sensorLog
    /\ Respond(q, [kind |-> "data", status |-> IF ok THEN 200 ELSE 500,
                   doc |-> q.body])
    /\ UNCHANGED <<storeUp, host, arduino, now, dbConnected, cachedConnection, commandQueue, caches, connectionStatus,
                   statusLog, alertLog, nreq, mailboxHistory>>

\* POST /api/device/status-update, up to `await newStatus.save()`
StatusUpdateOf(inputs) ==
  \E q \in { x \in Entering("statusUpdate", inputs) : x.body \in inputs } :
    /\ Enter(q)
    /\ latestDeviceStatus' = q.body
    /\ connectionStatus' =
         [connectionStatus EXCEPT
            !.lastStatusUpdate = JsDate(now),
            !.isConnected = TRUE]
    /\ AwaitSave(q, StatusDocument(q.body, now))
    /\ UNCHANGED <<storeUp, host, arduino, now, commandQueue, latestSensorData, store, nresp,
                   lastResp, mailboxHistory>>

StatusUpdate == StatusUpdateOf(StatusInputs)
StatusSample == StatusUpdateOf(SampleStatusInputs)

\* POST /api/device/status-update, after `await newStatus.save()`
StatusSaved ==
  \E q \in Saving("statusUpdate"), ok \in {StoreAnswers} :
    /\ statusLog' = IF ok THEN Insert(statusLog, q.body) ELSE statusLog
    /\ Respond(q, [kind |-> "statusUpdate", status |-> IF ok THEN 200 ELSE 500])
    /\ UNCHANGED <<storeUp, host, arduino, now, dbConnected, cachedConnection, commandQueue, caches, connectionStatus,
                   sensorLog, alertLog, nreq, mailboxHistory>>

\* req.body.message of POST /api/device/alerts
AlertInputs == {JsUndefined, JsStr(""), JsStr("Overheat")}

\* The device raises an alert.
ArriveAlert == \E m \in AlertInputs : Accept("alert", m)

\* POST /api/device/alerts, up to `await newAlert.save()`
SubmitAlert ==
  \E q \in Entering("alert", AlertInputs) :
    /\ Enter(q)
    /\ IF ~Truthy(q.body)
       THEN Reject(q)
       ELSE /\ AwaitSave(q, AlertDocument(q.body, now))
            /\ UNCHANGED <<storeUp, host, arduino, now, commandQueue, caches,
                           connectionStatus, store, nresp, lastResp,
                           mailboxHistory>>

\* POST /api/device/alerts, after `await newAlert.save()`
AlertSaved ==
  \E q \in Saving("alert"), ok \in {StoreAnswers} :
    /\ alertLog' = IF ok THEN Insert(alertLog, q.body) ELSE alertLog
    /\ Respond(q, [kind |-> "alert", status |-> IF ok THEN 200 ELSE 500])
    /\ UNCHANGED <<storeUp, host, arduino, now, dbConnected, cachedConnection,
                   commandQueue, caches, connectionStatus, sensorLog,
                   statusLog, nreq, mailboxHistory>>

\* --------------------------------------------------------- the serial host
\* Everything of the API process, which server.js does not touch.
api == <<dbConnected, cachedConnection, commandQueue, caches, connectionStatus,
         reqs, nreq, nresp, lastResp, mailboxHistory>>

\* connectDB() of db/connection.js, called when server.js starts, settles:
\* mongoose.connect() succeeded, or it failed and the catch block ends the
\* process with process.exit(1).
HostConnect ==
  /\ host.running
  /\ host.connecting
  /\ host' = IF storeUp
             THEN [host EXCEPT !.connecting = FALSE, !.connected = TRUE]
             ELSE [host EXCEPT !.connecting = FALSE, !.running = FALSE,
                               !.saving = EmptyBag]
  /\ UNCHANGED <<now, storeUp, arduino, api, store>>

\* The setInterval callback, up to `await newEntry.save()`: the latest
\* reading, when there is one, is inserted again.
Callback(h) ==
  IF Truthy(h.latestSensorData)
  THEN [h EXCEPT
          !.events = @ + 1,
          !.saving = @ (+) SetToBag({SensorDocument(h.latestSensorData, now)})]
  ELSE [h EXCEPT !.events = @ + 1]

\* The timer fires, in a run that does not follow the clock.
IntervalSave ==
  /\ host.running
  /\ host.events < MaxHostEvents
  /\ host' = Callback(host)
  /\ UNCHANGED <<now, storeUp, arduino, api, store>>

\* The timer fires when it is due, in a run that follows the clock: the
\* callback runs, and the next firing is due one delay later.
IntervalDue ==
  /\ host.running
  /\ host.events < MaxHostEvents
  /\ now >= host.due
  /\ host' = [Callback(host) EXCEPT !.due = @ + host.delay, !.since = now]
  /\ UNCHANGED <<now, storeUp, arduino, api, store>>

\* Time passes for the serial host, half a default period at a time, and never
\* beyond the moment at which its timer is due.
Elapse ==
  /\ now < MaxTicks * (SAVE_INTERVAL \div 2)
  /\ now + (SAVE_INTERVAL \div 2) <= host.due
  /\ now' = now + (SAVE_INTERVAL \div 2)
  /\ UNCHANGED <<storeUp, host, arduino, api, store>>

\* req.body.interval of POST /api/settings/sampling-interval of server.js
\* (seconds)
HostIntervalInputs == {JsUndefined, JsNum(0), JsNum(300), JsNum(600)}

\* POST /api/settings/sampling-interval of server.js: SAVE_INTERVAL is
\* assigned; the timer is left as setInterval() made it.
HostSamplingInterval ==
  \E interval \in HostIntervalInputs :
    /\ host.running
    /\ host' = IF IntervalRejected(interval)
               THEN host
               ELSE [host EXCEPT !.SAVE_INTERVAL = interval.v * 1000,
                                 !.since = now]
    /\ UNCHANGED <<now, storeUp, arduino, api, store>>

\* An insert of the serial host settles; an error is logged and nothing else.
HostSaved ==
  \E doc \in BagToSet(host.saving) :
    /\ host.running
    /\ host' = [host EXCEPT !.saving = @ (-) SetToBag({doc})]
    /\ sensorLog' = IF storeUp /\ host.connected
                    THEN Insert(sensorLog, doc) ELSE sensorLog
    /\ UNCHANGED <<now, storeUp, arduino, api, statusLog, alertLog>>

\* ------------------------------------------------------------ latest values
\* What a client that asks for the latest reading has seen: the document of
\* the reading whose insert was just answered with success, if that was the
\* last answer of the server, and the number of readings stored.
LatestSeen ==
  [after |-> IF lastResp.kind = "data" /\ lastResp.status = 200
             THEN lastResp.doc ELSE JsNull,
   stored |-> Len(sensorLog)]

\* A client asks for the latest reading.
ArriveLatest == Accept("latest", LatestSeen)

\* A findOne() that sorts the wrong way: .sort({ timestamp: 1 }).
FindOne_Oldest(log) ==
  IF log = <<>> THEN {JsNull}
  ELSE { log[k] : k \in { a \in 1..Len(log) :
                            \A b \in 1..Len(log) :
                              log[a].timestamp <= log[b].timestamp } }

\* SensorData.findOne().sort({ timestamp: -1 }).limit(1): null for an empty
\* collection, otherwise a document with the newest timestamp (any of them
\* when several documents share it).
FindOne(log) ==
  IF log = <<>> THEN {JsNull}
  ELSE { log[k] : k \in { a \in 1..Len(log) :
                            \A b \in 1..Len(log) :
                              log[b].timestamp <= log[a].timestamp } }

\* An answer that prefers the cache to the document found.
LatestAnswer_CacheFirst(cached, latest, cache) ==
  IF cache # JsNull
  THEN [kind |-> "latest", status |-> 200, from |-> "cache",
        temperature |-> cache.temperature, humidity |-> cache.humidity,
        ldr |-> cache.ldr]
  ELSE IF latest # JsNull
  THEN [kind |-> "latest", status |-> 200, from |-> "log",
        temperature |-> latest.temperature, humidity |-> latest.humidity,
        ldr |-> latest.ldr, timestamp |-> latest.timestamp]
  ELSE [kind |-> "latest", status |-> 200, from |-> "none",
        message |-> "No sensor data available yet"]

\* What GET /api/sensors/latest answers once findOne() has given `latest`:
\* `cached` says which branch of if (latestSensorData) the handler took, and
\* `cache` is latestSensorData at the time of the answer.
LatestAnswer(cached, latest, cache) ==
  IF latest # JsNull
  THEN [kind |-> "latest", status |-> 200, from |-> "log",
        temperature |-> latest.temperature, humidity |-> latest.humidity,
        ldr |-> latest.ldr, timestamp |-> latest.timestamp]
  ELSE IF cached
  THEN [kind |-> "latest", status |-> 200, from |-> "cache",
        temperature |-> cache.temperature, humidity |-> cache.humidity,
        ldr |-> cache.ldr]
  ELSE [kind |-> "latest", status |-> 200, from |-> "none",
        message |-> "No sensor data available yet"]

\* GET /api/sensors/latest, up to `await SensorData.findOne()...`
LatestQuery ==
  \E q \in Entering("latest", {LatestSeen}) :
    /\ Enter(q)
    /\ reqs' = Without(q) (+) SetToBag({
         Req("finding", "latest", [cached |-> Truthy(latestSensorData),
                                   seen |-> q.body], FALSE)})
    /\ UNCHANGED <<storeUp, host, arduino, now, commandQueue, caches, connectionStatus,
                   store, nresp, lastResp, mailboxHistory>>

\* GET /api/sensors/latest, after `await SensorData.findOne()...`
LatestFound ==
  \E q \in { x \in BagToSet(reqs) : x.pc = "finding" /\ x.kind = "latest" },
     ok \in {StoreAnswers} :
    /\ IF ok
       THEN \E latest \in FindOne(sensorLog) :
              Respond(q, [answer |-> LatestAnswer(q.body.cached, latest,
                                                  latestSensorData),
                          kind |-> "latest", status |-> 200,
                          seen |-> q.body.seen])
       ELSE Respond(q, [kind |-> "latest", status |-> 500])
    /\ UNCHANGED <<storeUp, host, arduino, now, dbConnected, cachedConnection,
                   commandQueue, caches, connectionStatus, store, nreq,
                   mailboxHistory>>

\* A client asks for the latest device status.
ArriveDeviceStatus == Accept("deviceStatus", JsUndefined)

\* GET /api/device/status, up to its answer from the cache or up to
\* `await DeviceStatus.findOne()...`
DeviceStatusQuery ==
  \E q \in Entering("deviceStatus", NoInput) :
    /\ Enter(q)
    /\ IF Truthy(latestDeviceStatus)
       THEN Respond(q, [kind |-> "deviceStatus", status |-> 200,
                        from |-> "cache", value |-> latestDeviceStatus])
       ELSE /\ reqs' = Without(q) (+) SetToBag({
                 Req("finding", "deviceStatus", JsUndefined, FALSE)})
            /\ UNCHANGED <<nresp, lastResp>>
    /\ UNCHANGED <<storeUp, host, arduino, now, commandQueue, caches, connectionStatus,
                   store, mailboxHistory>>

\* GET /api/device/status, after `await DeviceStatus.findOne()...`:
\* res.json(status || { message: "No status available" })
DeviceStatusFound ==
  \E q \in { x \in BagToSet(reqs) : x.pc = "finding" /\ x.kind = "deviceStatus" },
     ok \in {StoreAnswers} :
    /\ IF ok
       THEN \E found \in FindOne(statusLog) :
              IF found # JsNull
              THEN Respond(q, [kind |-> "deviceStatus", status |-> 200,
                               from |-> "log", value |-> found.status])
              ELSE Respond(q, [kind |-> "deviceStatus", status |-> 200,
                               from |-> "none",
                               value |-> JsStr("No status available")])
       ELSE Respond(q, [kind |-> "deviceStatus", status |-> 500])
    /\ UNCHANGED <<storeUp, host, arduino, now, dbConnected, cachedConnection,
                   commandQueue, caches, connectionStatus, store, nreq,
                   mailboxHistory>>

\* ------------------------------------------------------------- connectivity
\* A liveness test that lets an age of exactly the timeout pass.
IsCurrentlyConnected_AtMost(cs, t) ==
  IF Truthy(cs.lastDataReceived) \/ Truthy(cs.lastCommandPoll)
  THEN LET lastComm == JsOr(cs.lastDataReceived, cs.lastCommandPoll)
       IN  t - lastComm.v <= CONNECTION_TIMEOUT
  ELSE FALSE

\* A liveness test that counts a status update as a sign of life too.
IsCurrentlyConnected_WithStatus(cs, t) ==
  IF \/ Truthy(cs.lastDataReceived)
     \/ Truthy(cs.lastCommandPoll)
     \/ Truthy(cs.lastStatusUpdate)
  THEN LET lastComm == JsOr(JsOr(cs.lastDataReceived, cs.lastCommandPoll),
                            cs.lastStatusUpdate)
       IN  t - lastComm.v < CONNECTION_TIMEOUT
  ELSE FALSE

\* isCurrentlyConnected of GET /api/device/connection, at time t:
\*   if (lastDataReceived || lastCommandPoll) {
\*     lastComm = lastDataReceived || lastCommandPoll;
\*     isCurrentlyConnected = now - lastComm < CONNECTION_TIMEOUT }
IsCurrentlyConnected(cs, t) ==
  IF Truthy(cs.lastDataReceived) \/ Truthy(cs.lastCommandPoll)
  THEN LET lastComm == JsOr(cs.lastDataReceived, cs.lastCommandPoll)
       IN  t - lastComm.v < CONNECTION_TIMEOUT
  ELSE FALSE

\* GET /api/device/connection
ConnectionStatus ==
  \E q \in Entering("connection", NoInput) :
    /\ Enter(q)
    /\ Respond(q, [kind |-> "connection", status |-> 200,
                   isConnected |-> IsCurrentlyConnected(connectionStatus, now)])
    /\ UNCHANGED <<storeUp, host, arduino, now, commandQueue, caches, connectionStatus, store,
                   mailboxHistory>>

\* ------------------------------------------------------------ history query
\* "1m" ... "1week" as the code spells them.
P1m == JsChars(<<"1", "m">>)
P1minute == JsChars(<<"1", "m", "i", "n", "u", "t", "e">>)
P5m == JsChars(<<"5", "m">>)
P5minutes == JsChars(<<"5", "m", "i", "n", "u", "t", "e", "s">>)
P15m == JsChars(<<"1", "5", "m">>)
P15minutes == JsChars(<<"1", "5", "m", "i", "n", "u", "t", "e", "s">>)
P30m == JsChars(<<"3", "0", "m">>)
P30minutes == JsChars(<<"3", "0", "m", "i", "n", "u", "t", "e", "s">>)
P1h == JsChars(<<"1", "h">>)
P1hour == JsChars(<<"1", "h", "o", "u", "r">>)
P6h == JsChars(<<"6", "h">>)
P6hours == JsChars(<<"6", "h", "o", "u", "r", "s">>)
P1d == JsChars(<<"1", "d">>)
P1day == JsChars(<<"1", "d", "a", "y">>)
P1w == JsChars(<<"1", "w">>)
P1week == JsChars(<<"1", "w", "e", "e", "k">>)

DigitChars == <<"0", "1", "2", "3", "4", "5", "6", "7", "8", "9">>

\* \d
IsDigit(c) == \E d \in 1..10 : DigitChars[d] = c

DigitValue(c) == (CHOOSE d \in 1..10 : DigitChars[d] = c) - 1

\* A pattern that asks for no digit: /^(\d*)([mhd])$/.
MatchCustom_NoDigits(cs) ==
  /\ Len(cs) >= 1
  /\ \A k \in 1..(Len(cs) - 1) : IsDigit(cs[k])
  /\ cs[Len(cs)] \in {"m", "h", "d"}

\* A pattern that asks for a numeral without a leading zero:
\* /^([1-9]\d*)([mhd])$/.
MatchCustom_NoLeadingZero(cs) ==
  /\ Len(cs) >= 2
  /\ \A k \in 1..(Len(cs) - 1) : IsDigit(cs[k])
  /\ cs[1] # "0"
  /\ cs[Len(cs)] \in {"m", "h", "d"}

\* period.match(/^(\d+)([mhd])$/): one or more digits, then one of m, h, d,
\* and nothing before or after.
MatchCustom(cs) ==
  /\ Len(cs) >= 2
  /\ \A k \in 1..(Len(cs) - 1) : IsDigit(cs[k])
  /\ cs[Len(cs)] \in {"m", "h", "d"}

\* parseInt of a string of digits.
RECURSIVE ParseDigits(_)
ParseDigits(ds) ==
  IF ds = <<>> THEN 0
  ELSE ParseDigits(SubSeq(ds, 1, Len(ds) - 1)) * 10 + DigitValue(ds[Len(ds)])

\* A conversion that takes an hour for a minute.
CustomMillis_HourAsMinute(value, unit) ==
  CASE unit = "m" -> value * 60 * 1000
    [] unit = "h" -> value * 60 * 1000
    [] unit = "d" -> value * 24 * 60 * 60 * 1000

\* value * 60 * 1000, value * 60 * 60 * 1000, value * 24 * 60 * 60 * 1000
CustomMillis(value, unit) ==
  CASE unit = "m" -> value * 60 * 1000
    [] unit = "h" -> value * 60 * 60 * 1000
    [] unit = "d" -> value * 24 * 60 * 60 * 1000

\* The if-chain that sets startTime for a request made at time t, or answers
\* 400: a window, or the error the handler returns.
Window(t, ms) == [ok |-> TRUE, startTime |-> t - ms, endTime |-> t]
NoWindow(error) == [ok |-> FALSE, error |-> error]

ResolveWindow(period, t) ==
  IF period = P1m \/ period = P1minute THEN Window(t, 60 * 1000)
  ELSE IF period = P5m \/ period = P5minutes THEN Window(t, 5 * 60 * 1000)
  ELSE IF period = P15m \/ period = P15minutes THEN Window(t, 15 * 60 * 1000)
  ELSE IF period = P30m \/ period = P30minutes THEN Window(t, 30 * 60 * 1000)
  ELSE IF period = P1h \/ period = P1hour THEN Window(t, 60 * 60 * 1000)
  ELSE IF period = P6h \/ period = P6hours THEN Window(t, 6 * 60 * 60 * 1000)
  ELSE IF period = P1d \/ period = P1day THEN Window(t, 24 * 60 * 60 * 1000)
  ELSE IF period = P1w \/ period = P1week THEN Window(t, 7 * 24 * 60 * 60 * 1000)
  ELSE IF Truthy(period)
    THEN IF MatchCustom(period.v)
         THEN LET n == Len(period.v)
                  value == ParseDigits(SubSeq(period.v, 1, n - 1))
                  unit == period.v[n]
              IN  IF unit \in {"m", "h", "d"}
                  THEN Window(t, CustomMillis(value, unit))
                  ELSE NoWindow("Invalid period format")
         ELSE NoWindow("Invalid period")
  ELSE NoWindow("Period parameter is required")

\* parseInt of a string of digits with an optional sign.
ParseIntString(cs) ==
  IF cs[1] = "-" THEN 0 - ParseDigits(Tail(cs)) ELSE ParseDigits(cs)

\* limit ? parseInt(limit) : 10000, for a limit that is absent or a numeral.
HistoryLimit(limit) == IF Truthy(limit) THEN ParseIntString(limit.v) ELSE 10000

\* limit ? parseInt(limit) : 1000
RangeLimit(limit) == IF Truthy(limit) THEN ParseIntString(limit.v) ELSE 1000

\* A filter that has lost its lower bound: { timestamp: { $lte: now } }.
InRange_NoLowerBound(log, start, end) ==
  { k \in 1..Len(log) : log[k].timestamp <= end }

\* A filter with exclusive bounds: { timestamp: { $gt: start, $lt: end } }.
InRange_Exclusive(log, start, end) ==
  { k \in 1..Len(log) : start < log[k].timestamp /\ log[k].timestamp < end }

\* The documents with start <= timestamp <= end.
InRange(log, start, end) ==
  { k \in 1..Len(log) : start <= log[k].timestamp /\ log[k].timestamp <= end }

\* .sort({ timestamp: -1 }): the documents of positions ks, newest first.
RECURSIVE NewestFirst(_, _)
NewestFirst(log, ks) ==
  IF ks = {} THEN <<>>
  ELSE LET k == CHOOSE a \in ks : \A b \in ks : log[b].timestamp <= log[a].timestamp
       IN  <<log[k]>> \o NewestFirst(log, ks \ {k})

\* .limit(n): the first n documents; the first -n when n is negative (the
\* driver asks for a single batch of -n); all of them when n is 0 (MongoDB
\* takes a limit of 0 for no limit).
Limited(docs, n) ==
  LET m == IF n < 0 THEN 0 - n ELSE n
  IN  IF n = 0 \/ Len(docs) <= m THEN docs ELSE SubSeq(docs, 1, m)

\* SensorData.find(query).sort({ timestamp: -1 }).limit(n)
FindHistory(log, query) ==
  Limited(NewestFirst(log, InRange(log, query.startTime, query.endTime)),
          query.limit)

\* SensorData.find(query).sort({ timestamp: -1 }).limit(n) of the range route,
\* whose query has a timestamp filter only when start and end are both given.
FindRange(log, query) ==
  Limited(NewestFirst(log, IF query.filtered
                           THEN InRange(log, query.startTime, query.endTime)
                           ELSE 1..Len(log)),
          query.limit)

\* --- the inputs of a history query
MaxPeriodLen == 2       \* every period of up to this many characters is tried
MaxPeriodValue == 12    \* every custom period <value><unit> up to this value

PeriodAlphabet == {"0", "1", "2", "m", "h", "d", "w", "s", "-"}

\* The decimal numeral of n.
RECURSIVE Decimal(_)
Decimal(n) ==
  IF n < 10 THEN <<DigitChars[n + 1]>>
  ELSE Decimal(n \div 10) \o <<DigitChars[(n % 10) + 1]>>

ShortPeriods ==
  UNION { { JsChars(cs) : cs \in [1..n -> PeriodAlphabet] } : n \in 0..MaxPeriodLen }

CustomPeriods ==
  { JsChars(Decimal(v) \o <<u>>) : v \in 1..MaxPeriodValue, u \in {"m", "h", "d"} }

NamedPeriods ==
  {P1m, P1minute, P5m, P5minutes, P15m, P15minutes, P30m, P30minutes,
   P1h, P1hour, P6h, P6hours, P1d, P1day, P1w, P1week}

OtherPeriods ==
  {JsChars(<<"b", "o", "g", "u", "s">>),
    JsChars(<<"2", "w">>),
    JsChars(<<"1", "0", "s">>),
    JsChars(<<"6", "0", "m">>),
    JsChars(<<"1", "4", "4", "0", "m">>),
    JsChars(<<"1", "6", "8", "h">>),
    JsChars(<<"7", "d">>),
    JsChars(<<"2", "4", "h">>),
    JsChars(<<"-", "5", "h">>),
    JsChars(<<"+", "5", "h">>),
    JsChars(<<"s", "1", "m">>),
    JsChars(<<"1", ".", "5", "h">>),
    JsChars(<<"1", "H">>),
    JsChars(<<"1", "m", "m">>),
    JsChars(<<"0", "0", "7", "d">>),
    JsChars(<<"1", "m", " ">>),
    JsChars(<<" ", "1", "m">>),
    JsChars(<<"1", "h", "o", "u", "r", "s">>),
    JsChars(<<"m", "i", "n", "u", "t", "e">>)}

\* req.query.period
PeriodInputs ==
  {JsUndefined} \cup ShortPeriods \cup CustomPeriods \cup NamedPeriods
    \cup OtherPeriods

\* req.query.limit
LimitInputs ==
  {JsUndefined, JsChars(<<>>), JsChars(<<"1">>), JsChars(<<"2">>),
   JsChars(<<"0">>), JsChars(<<"-", "1">>)}

\* An Invalid Date: a date without a time value.
InvalidDate == [t |-> "date", invalid |-> TRUE]

\* new Date(s) for the strings that the range queries of the model carry: the
\* time of a string in the ISO format, and an Invalid Date for any other
\* string.
NewDate(s) ==
  CASE s = JsStr("1970-01-01T00:00:00.000Z") -> JsDate(0)
    [] s = JsStr("1970-01-20T16:03:20.000Z") -> JsDate(1699400000)
    [] s = JsStr("1970-01-20T16:13:20.000Z") -> JsDate(1700000000)
    [] OTHER -> InvalidDate

\* req.query.start and req.query.end: absent, empty, a date string, or a
\* string that is no date.
RangeInputs ==
  LET StartInputs ==
        {JsUndefined, JsStr(""), JsStr("1970-01-01T00:00:00.000Z"),
         JsStr("1970-01-20T16:03:20.000Z"), JsStr("yesterday")}
      EndInputs ==
        {JsUndefined, JsStr("1970-01-20T16:03:20.000Z"),
         JsStr("1970-01-20T16:13:20.000Z")}
  IN  { [start |-> a, end |-> b, limit |-> l] :
          a \in StartInputs, b \in EndInputs, l \in LimitInputs }

\* The history queries that arrive in a run of the whole application.
HistoryArrivals ==
  { [period |-> p, limit |-> JsUndefined] : p \in {JsUndefined, P1h, P1w} }

\* The times at which the first history query is made.
HistoryTimes == {0, 604800000, 1700000000}

\* The readings stored before time t: none, or those of the times below that
\* are not later than t, in the order in which they were inserted.
HistoryLogs(t) ==
  LET reading == [temperature |-> JsNum(22), humidity |-> JsNum(55),
                  ldr |-> JsNum(300)]
      stored == << SensorDocument(reading, 0),
                   SensorDocument(reading, 1000000000),
                   SensorDocument(reading, 1699400000),
                   SensorDocument(reading, 1699970000),
                   SensorDocument(reading, 1700000000) >>
      past(d) == d.timestamp <= t
  IN  { <<>>, SelectSeq(stored, past) }

\* GET /api/sensors/history, up to `await SensorData.find(...)`.  A request
\* whose period gives no window is answered 400 before any query is made.
HistoryQuery ==
  \E q \in Entering("history", HistoryArrivals) :
    /\ Enter(q)
    /\ LET w == ResolveWindow(q.body.period, now)
       IN  IF w.ok
           THEN /\ reqs' = Without(q) (+) SetToBag({
                     Req("finding", "history",
                         [period |-> q.body.period,
                          startTime |-> w.startTime,
                          endTime |-> w.endTime,
                          limit |-> HistoryLimit(q.body.limit),
                          rawLimit |-> q.body.limit], FALSE)})
                /\ UNCHANGED <<storeUp, host, arduino, nresp, lastResp>>
           ELSE Respond(q, [kind |-> "history", status |-> 400,
                            period |-> q.body.period, error |-> w.error])
    /\ UNCHANGED <<storeUp, host, arduino, now, commandQueue, caches, connectionStatus, store,
                   mailboxHistory>>

\* GET /api/sensors/history, after `await SensorData.find(...)`: the query
\* answered (ok) or threw into the catch block.
HistoryFound ==
  \E q \in { x \in BagToSet(reqs) : x.pc = "finding" /\ x.kind = "history" },
     ok \in {StoreAnswers} :
    /\ IF ok
       THEN LET data == FindHistory(sensorLog, q.body)
            IN  Respond(q, [kind |-> "history", status |-> 200,
                            period |-> q.body.period,
                            startTime |-> q.body.startTime,
                            endTime |-> q.body.endTime,
                            count |-> Len(data),
                            data |-> data,
                            rawLimit |-> q.body.rawLimit])
       ELSE Respond(q, [kind |-> "history", status |-> 500,
                        period |-> q.body.period])
    /\ UNCHANGED <<storeUp, host, arduino, now, dbConnected, cachedConnection, commandQueue, caches, connectionStatus,
                   store, nreq, mailboxHistory>>

\* The range queries that arrive in a run of the whole application.
RangeArrivals ==
  { [start |-> JsStr("1970-01-01T00:00:00.000Z"), end |-> e,
     limit |-> JsUndefined] :
      e \in {JsUndefined, JsStr("1970-01-20T16:13:20.000Z")} }

\* GET /api/sensors/range, up to `await SensorData.find(...)`.
RangeQuery ==
  \E q \in Entering("range", RangeArrivals) :
    /\ Enter(q)
    /\ LET filtered == Truthy(q.body.start) /\ Truthy(q.body.end)
           gte == NewDate(q.body.start)
           lte == NewDate(q.body.end)
           valid == filtered => (gte # InvalidDate /\ lte # InvalidDate)
       IN  reqs' = Without(q) (+) SetToBag({
             Req("finding", "range",
                 [filtered |-> filtered,
                  valid |-> valid,
                  startTime |-> IF filtered /\ valid THEN gte.v ELSE 0,
                  endTime |-> IF filtered /\ valid THEN lte.v ELSE 0,
                  limit |-> RangeLimit(q.body.limit),
                  rawLimit |-> q.body.limit,
                  asked |-> q.body], FALSE)})
    /\ UNCHANGED <<storeUp, host, arduino, now, commandQueue, caches, connectionStatus, store,
                   nresp, lastResp, mailboxHistory>>

\* GET /api/sensors/range, after `await SensorData.find(...)`: the query
\* throws when the store does not answer, and when a bound of the filter is an
\* Invalid Date, which mongoose refuses to cast.
RangeFound ==
  \E q \in { x \in BagToSet(reqs) : x.pc = "finding" /\ x.kind = "range" } :
    /\ IF StoreAnswers /\ q.body.valid
       THEN Respond(q, [kind |-> "range", status |-> 200,
                        query |-> q.body,
                        data |-> FindRange(sensorLog, q.body),
                        rawLimit |-> q.body.rawLimit])
       ELSE Respond(q, [kind |-> "range", status |-> 500])
    /\ UNCHANGED <<storeUp, host, arduino, now, dbConnected, cachedConnection, commandQueue, caches, connectionStatus,
                   store, nreq, mailboxHistory>>

\* ------------------------------------------------------------ specification
\* The command mailbox: the enqueue routes and the device's poll.  No other
\* route reads or writes commandQueue or totalCommandsSent.
MailboxNext ==
  \/ StoreFlip
  \/ ArriveEnqueue
  \/ ArrivePoll
  \/ QueueCommand
  \/ ReadCommand
  \/ SamplingInterval
  \/ TempEnable
  \/ TempDisable
  \/ LightEnable
  \/ LightDisable
  \/ StatusRequest
  \/ PollCommands

SpecMailbox == Init /\ [][MailboxNext]_vars

\* The connectivity tracker: the routes that stamp connectionStatus, the route
\* that reads it, and the clock.
ConnectivityNext ==
  \/ StoreFlip
  \/ Tick
  \/ ArrivePoll
  \/ ArriveSample
  \/ ArriveStatusSample
  \/ ArriveConnection
  \/ PollCommands
  \/ SubmitSample
  \/ DataSaved
  \/ StatusSample
  \/ StatusSaved
  \/ ConnectionStatus

SpecConnectivity == Init /\ [][ConnectivityNext]_vars

\* ------------------------------------------------------------- the device
\* The messages that the sketch prints, as characters.
Message ==
  [ failed |->
      << "F", "a", "i", "l", "e", "d", " ", "t", "o", " ", "r", "e", "a", "d",
       " ", "f", "r", "o", "m", " ", "D", "H", "T", " ", "s", "e", "n", "s",
       "o", "r", "!" >>,
    intervalUpdated |->
      << "I", "n", "t", "e", "r", "v", "a", "l", " ", "u", "p", "d", "a", "t",
       "e", "d", " ", "t", "o", ":", " " >>,
    currentInterval |->
      << "C", "u", "r", "r", "e", "n", "t", " ", "i", "n", "t", "e", "r", "v",
       "a", "l", ":", " " >>,
    tempReading |->
      << "T", "e", "m", "p", "/", "H", "u", "m", "i", "d", "i", "t", "y", " ",
       "R", "e", "a", "d", "i", "n", "g", ":", " " >>,
    lightReading |->
      << "L", "i", "g", "h", "t", " ", "R", "e", "a", "d", "i", "n", "g", ":",
       " " >>,
    on |->
      << "O", "N" >>,
    off |->
      << "O", "F", "F" >>,
    tempEnabled |->
      << "T", "e", "m", "p", "e", "r", "a", "t", "u", "r", "e", "/", "H", "u",
       "m", "i", "d", "i", "t", "y", " ", "r", "e", "a", "d", "i", "n", "g",
       "s", " ", "E", "N", "A", "B", "L", "E", "D", "." >>,
    tempDisabled |->
      << "T", "e", "m", "p", "e", "r", "a", "t", "u", "r", "e", "/", "H", "u",
       "m", "i", "d", "i", "t", "y", " ", "r", "e", "a", "d", "i", "n", "g",
       "s", " ", "D", "I", "S", "A", "B", "L", "E", "D", "." >>,
    lightEnabled |->
      << "L", "D", "R", " ", "(", "L", "i", "g", "h", "t", ")", " ", "r", "e",
       "a", "d", "i", "n", "g", "s", " ", "E", "N", "A", "B", "L", "E", "D",
       "." >>,
    lightDisabled |->
      << "L", "D", "R", " ", "(", "L", "i", "g", "h", "t", ")", " ", "r", "e",
       "a", "d", "i", "n", "g", "s", " ", "D", "I", "S", "A", "B", "L", "E",
       "D", "." >> ]

\* Serial.println(s): the line that the host's parser makes of it, which
\* splits on the line feed and keeps the carriage return.
Println(s) == s \o <<"CR">>

\* output += <int>
PrintInt(n) == IF n < 0 THEN <<"-">> \o Decimal(0 - n) ELSE Decimal(n)

\* output += <float>: String(float) prints two decimals, and nan for what is
\* not a number.
PrintFloat(x) ==
  IF x.nan THEN <<"n", "a", "n">>
  ELSE LET h == IF x.hundredths < 0 THEN 0 - x.hundredths ELSE x.hundredths
       IN  (IF x.hundredths < 0 THEN <<"-">> ELSE <<>>)
             \o Decimal(h \div 100) \o <<".">>
             \o <<DigitChars[((h \div 10) % 10) + 1], DigitChars[(h % 10) + 1]>>

\* printReadings(): the lines it prints, one or none.
printReadings(a) ==
  LET PrintTemperature ==
      << "T", "e", "m", "p", "e", "r", "a", "t", "u", "r", "e", ":", " " >>
      PrintHumidity ==
      << " ", "deg", "C", ",", " ", "H", "u", "m", "i", "d", "i", "t", "y", ":",
         " " >>
      PrintPercent ==
      << " ", "%", ",", " " >>
      PrintLdr ==
      << "L", "D", "R", " ", "O", "u", "t", "p", "u", "t", ":", " " >>
      th == IF a.readTempHumidity
            THEN PrintTemperature \o PrintFloat(a.temperature)
                   \o PrintHumidity \o PrintFloat(a.humidity) \o PrintPercent
            ELSE <<>>
      light == IF a.readLight THEN PrintLdr \o PrintInt(a.ldrValue) ELSE <<>>
  IN  IF th \o light # <<>> THEN <<Println(th \o light)>> ELSE <<>>

\* What the sensors give when they are read: a temperature and a humidity, or
\* no number for either when the DHT fails, and a light level.
DhtReadings ==
  { [temperature |-> Float(2400), humidity |-> Float(4000)],
    [temperature |-> Float(2550), humidity |-> Float(4125)],
    [temperature |-> Float(0 - 500), humidity |-> Float(4000)],
    [temperature |-> [nan |-> TRUE, hundredths |-> 0],
      humidity |-> [nan |-> TRUE, hundredths |-> 0]] }

LdrReadings == {7, 512}

\* readSensors(): the device after it, for what the sensors give, and the
\* lines it prints.
readSensors(a, dht, ldr) ==
  [a EXCEPT
     !.temperature = IF a.readTempHumidity THEN dht.temperature ELSE @,
     !.humidity = IF a.readTempHumidity THEN dht.humidity ELSE @,
     !.ldrValue = IF a.readLight THEN ldr ELSE @,
     !.printed = IF a.readTempHumidity
                    /\ (dht.temperature.nan \/ dht.humidity.nan)
                 THEN <<Println(Message.failed)>> ELSE <<>>]

\* readSensors(); printReadings();
ReadAndPrint(a, dht, ldr) ==
  LET b == readSensors(a, dht, ldr)
  IN  [b EXCEPT !.printed = @ \o printReadings(b)]

\* The commands that reach the device, after trim() and toUpperCase().
DeviceCommands ==
  {"INTERVAL:2000", "INTERVAL:500", "READ", "STATUS", "TEMP:ON", "TEMP:OFF",
   "LIGHT:ON", "LIGHT:OFF", "HELLO"}

\* The first part of loop(): the device after a command, with what it prints.
Commanded(a, command, dht, ldr) ==
  LET \* intervalStr.toInt() of the INTERVAL commands of the model
      NewInterval(c) == IF c = "INTERVAL:2000" THEN 2000 ELSE 500
  IN
  CASE command \in {"INTERVAL:2000", "INTERVAL:500"} ->
         IF NewInterval(command) >= 1000
         THEN [a EXCEPT
                 !.samplingInterval = NewInterval(command),
                 !.printed = <<Println(Message.intervalUpdated
                                       \o PrintInt(NewInterval(command)))>>]
         ELSE [a EXCEPT !.printed = <<>>]
    [] command = "READ" -> ReadAndPrint(a, dht, ldr)
    [] command = "STATUS" ->
         [a EXCEPT !.printed =
            << Println(Message.currentInterval \o PrintInt(a.samplingInterval)),
               Println(Message.tempReading
                       \o IF a.readTempHumidity THEN Message.on ELSE Message.off),
               Println(Message.lightReading
                       \o IF a.readLight THEN Message.on ELSE Message.off) >>]
    [] command = "TEMP:ON" ->
         [a EXCEPT !.readTempHumidity = TRUE,
                   !.printed = <<Println(Message.tempEnabled)>>]
    [] command = "TEMP:OFF" ->
         [a EXCEPT !.readTempHumidity = FALSE,
                   !.printed = <<Println(Message.tempDisabled)>>]
    [] command = "LIGHT:ON" ->
         [a EXCEPT !.readLight = TRUE,
                   !.printed = <<Println(Message.lightEnabled)>>]
    [] command = "LIGHT:OFF" ->
         [a EXCEPT !.readLight = FALSE,
                   !.printed = <<Println(Message.lightDisabled)>>]
    [] OTHER -> [a EXCEPT !.printed = <<>>]

\* ------------------------------------------------------------ serial lines
\* A line of the serial port is the sequence of its characters; "deg" stands
\* for the degree sign and "CR" for the carriage return that println() sends
\* before the line feed on which the parser splits.

\* The three literal parts of
\* /Temperature: ([\d.]+) °C, Humidity: ([\d.]+) %, LDR Output: (\d+)/
TemperatureLit ==
  << "T", "e", "m", "p", "e", "r", "a", "t", "u", "r", "e", ":", " " >>

HumidityLit ==
  << " ", "deg", "C", ",", " ", "H", "u", "m", "i", "d", "i", "t", "y", ":",
     " " >>

LdrLit ==
  << " ", "%", ",", " ", "L", "D", "R", " ", "O", "u", "t", "p", "u", "t",
     ":", " " >>

\* lit stands in s at position i.
HasAt(s, i, lit) ==
  /\ i >= 1
  /\ i + Len(lit) - 1 <= Len(s)
  /\ \A k \in 1..Len(lit) : s[i + k - 1] = lit[k]

\* data.includes(lit)
Includes(s, lit) == \E i \in 1..(Len(s) + 1) : HasAt(s, i, lit)

\* The number of characters from position i on that are digits (dots too,
\* when dots is set): what a greedy \d+ or [\d.]+ takes at i.
RECURSIVE Run(_, _, _)
Run(s, i, dots) ==
  IF i >= 1 /\ i <= Len(s) /\ (IsDigit(s[i]) \/ (dots /\ s[i] = "."))
  THEN 1 + Run(s, i + 1, dots)
  ELSE 0

\* The three groups of the pattern when it matches at position i, as
\* <<start, length>> pairs.  No character class of the pattern holds the
\* character that follows it, so the greedy run is the only candidate.
Groups(s, i) ==
  LET a == i + Len(TemperatureLit)
      n1 == Run(s, a, TRUE)
      b == a + n1 + Len(HumidityLit)
      n2 == Run(s, b, TRUE)
      c == b + n2 + Len(LdrLit)
      n3 == Run(s, c, FALSE)
  IN  << <<a, n1>>, <<b, n2>>, <<c, n3>> >>

\* The pattern matches at position i.
MatchesAt(s, i) ==
  LET g == Groups(s, i)
  IN  /\ HasAt(s, i, TemperatureLit)
      /\ g[1][2] >= 1
      /\ HasAt(s, g[1][1] + g[1][2], HumidityLit)
      /\ g[2][2] >= 1
      /\ HasAt(s, g[2][1] + g[2][2], LdrLit)
      /\ g[3][2] >= 1

\* data.match(/.../): null, or the groups of the leftmost match (values[1],
\* values[2], values[3]).
Match(s) ==
  LET at == { i \in 1..Len(s) : MatchesAt(s, i) }
  IN  IF at = {} THEN JsNull
      ELSE LET i == CHOOSE x \in at : \A y \in at : x <= y
               g == Groups(s, i)
           IN  [t |-> "object",
                v |-> [k \in 1..3 |-> SubSeq(s, g[k][1], g[k][1] + g[k][2] - 1)]]

\* A number with a fraction: its whole part and the digits of its fraction,
\* trailing zeros dropped; a whole number is the JsNum of it.
RECURSIVE StripZeros(_)
StripZeros(ds) ==
  IF ds # <<>> /\ ds[Len(ds)] = "0" THEN StripZeros(SubSeq(ds, 1, Len(ds) - 1))
  ELSE ds

JsFloat(whole, fraction) ==
  IF StripZeros(fraction) = <<>> THEN JsNum(whole)
  ELSE [t |-> "number", v |-> whole, f |-> StripZeros(fraction)]

\* parseFloat of characters that are digits and dots: the longest prefix
\* <digits>[.<digits>] that holds a digit, or NaN when there is none.
ParseFloatChars(cs) ==
  LET n == Run(cs, 1, FALSE)
      m == IF n < Len(cs) /\ cs[n + 1] = "." THEN Run(cs, n + 2, FALSE) ELSE 0
  IN  IF n = 0 /\ m = 0 THEN JsNaN
      ELSE JsFloat(ParseDigits(SubSeq(cs, 1, n)), SubSeq(cs, n + 2, n + 1 + m))

\* The object assigned to latestSensorData from the groups of a match.
SerialReading(values) ==
  [t |-> "object",
   temperature |-> ParseFloatChars(values.v[1]),
   humidity |-> ParseFloatChars(values.v[2]),
   ldr |-> JsNum(ParseDigits(values.v[3]))]

\* The lines that the device and its cable can send: readings of the firmware
\* with both sensors on, with a sub-zero temperature, with a failed sensor
\* and with either sensor off, its messages, and noise around a reading.
SerialLines ==
  LET Line_24_40_512 ==
        << "T", "e", "m", "p", "e", "r", "a", "t", "u", "r", "e", ":", " ", "2",
           "4", ".", "0", "0", " ", "deg", "C", ",", " ", "H", "u", "m", "i", "d",
           "i", "t", "y", ":", " ", "4", "0", ".", "0", "0", " ", "%", ",", " ",
           "L", "D", "R", " ", "O", "u", "t", "p", "u", "t", ":", " ", "5", "1",
           "2", "CR" >>
      Line_25_41_7 ==
        << "T", "e", "m", "p", "e", "r", "a", "t", "u", "r", "e", ":", " ", "2",
           "5", ".", "5", "0", " ", "deg", "C", ",", " ", "H", "u", "m", "i", "d",
           "i", "t", "y", ":", " ", "4", "1", ".", "2", "5", " ", "%", ",", " ",
           "L", "D", "R", " ", "O", "u", "t", "p", "u", "t", ":", " ", "7", "CR" >>
      Line_SubZero ==
        << "T", "e", "m", "p", "e", "r", "a", "t", "u", "r", "e", ":", " ", "-",
           "5", ".", "0", "0", " ", "deg", "C", ",", " ", "H", "u", "m", "i", "d",
           "i", "t", "y", ":", " ", "4", "0", ".", "0", "0", " ", "%", ",", " ",
           "L", "D", "R", " ", "O", "u", "t", "p", "u", "t", ":", " ", "5", "1",
           "2", "CR" >>
      Line_Nan ==
        << "T", "e", "m", "p", "e", "r", "a", "t", "u", "r", "e", ":", " ", "n",
           "a", "n", " ", "deg", "C", ",", " ", "H", "u", "m", "i", "d", "i", "t",
           "y", ":", " ", "n", "a", "n", " ", "%", ",", " ", "L", "D", "R", " ",
           "O", "u", "t", "p", "u", "t", ":", " ", "5", "1", "2", "CR" >>
      Line_LightOnly ==
        << "L", "D", "R", " ", "O", "u", "t", "p", "u", "t", ":", " ", "5", "1",
           "2", "CR" >>
      Line_TempOnly ==
        << "T", "e", "m", "p", "e", "r", "a", "t", "u", "r", "e", ":", " ", "2",
           "4", ".", "0", "0", " ", "deg", "C", ",", " ", "H", "u", "m", "i", "d",
           "i", "t", "y", ":", " ", "4", "0", ".", "0", "0", " ", "%", ",", " ",
           "CR" >>
      Line_Disabled ==
        << "T", "e", "m", "p", "e", "r", "a", "t", "u", "r", "e", "/", "H", "u",
           "m", "i", "d", "i", "t", "y", " ", "r", "e", "a", "d", "i", "n", "g",
           "s", " ", "D", "I", "S", "A", "B", "L", "E", "D", ".", "CR" >>
      Line_Noise ==
        << "#", "1", ".", "T", "e", "m", "p", "e", "r", "a", "t", "u", "r", "e",
           ":", " ", "2", ".", "5", ".", "1", " ", "deg", "C", ",", " ", "H", "u",
           "m", "i", "d", "i", "t", "y", ":", " ", ".", "5", " ", "%", ",", " ",
           "L", "D", "R", " ", "O", "u", "t", "p", "u", "t", ":", " ", "0", "9",
           "x", "CR" >>
  IN  { Line_24_40_512, Line_25_41_7, Line_SubZero, Line_Nan, Line_LightOnly,
        Line_TempOnly, Line_Disabled, Line_Noise, <<>> }

\* What parser.on("data") assigns to latestSensorData for a line: the reading
\* of the match, when the line holds "Temperature:" and the pattern matches,
\* and nothing (null here) otherwise.  Parsed holds it for the lines of
\* SerialLines.
Parse(data) ==
  LET TemperatureTag ==
        << "T", "e", "m", "p", "e", "r", "a", "t", "u", "r", "e", ":" >>
  IN  IF Includes(data, TemperatureTag) /\ Truthy(Match(data))
      THEN SerialReading(Match(data))
      ELSE JsNull

Parsed == [data \in SerialLines |-> Parse(data)]

\* The lines of the runs that follow the logs.
SerialSample ==
  { printReadings(ArduinoInit)[1],
    printReadings([ArduinoInit EXCEPT !.readTempHumidity = FALSE])[1] }

\* parser.on("data"), up to `await newEntry.save()`: a line with a reading
\* sets latestSensorData and starts an insert; any other line does nothing.  received counts the lines that
\* started an insert.
OnData(h, reading) ==
  IF Truthy(reading)
  THEN [h EXCEPT
          !.received = @ + 1,
          !.latestSensorData = reading,
          !.saving = @ (+) SetToBag({SensorDocument(reading, now)})]
  ELSE h

\* A line arrives from the serial port.
SerialDataOf(lines) ==
  \E data \in lines :
    /\ host.running
    /\ host.events < MaxHostEvents
    /\ host' = [OnData(host, Parsed[data]) EXCEPT !.events = @ + 1]
    /\ UNCHANGED <<now, storeUp, arduino, api, store>>

SerialData == SerialDataOf(SerialLines)
SerialSampled == SerialDataOf(SerialSample)

\* The host after the lines that the device printed, in their order.
RECURSIVE Received(_, _)
Received(h, lines) ==
  IF lines = <<>> THEN h
  ELSE Received(OnData(h, Parse(Head(lines))), Tail(lines))

\* The device takes the commands and makes the readings of one run.
MaxDeviceSteps == 3

\* loop() of the device finds a command on the serial port and handles it; the
\* host, when it runs, reads what the device prints.
DeviceCommand ==
  \E command \in DeviceCommands, dht \in DhtReadings, ldr \in LdrReadings :
    /\ arduino.steps < MaxDeviceSteps
    /\ arduino' = [Commanded(arduino, command, dht, ldr) EXCEPT !.steps = @ + 1]
    /\ host' = IF host.running THEN Received(host, arduino'.printed) ELSE host
    /\ UNCHANGED <<now, storeUp, api, store>>

\* loop() of the device finds that a sampling interval has passed while a
\* sensor is on: it reads the sensors and prints the readings.
DeviceReading ==
  \E dht \in DhtReadings, ldr \in LdrReadings :
    /\ arduino.steps < MaxDeviceSteps
    /\ arduino.readTempHumidity \/ arduino.readLight
    /\ arduino' = [ReadAndPrint(arduino, dht, ldr) EXCEPT !.steps = @ + 1]
    /\ host' = IF host.running THEN Received(host, arduino'.printed) ELSE host
    /\ UNCHANGED <<now, storeUp, api, store>>

\* The serial host alone, on the clock: its connection to the store, the
\* lines of the device, the save timer, its interval and the inserts.
SerialNext ==
  \/ StoreFlip
  \/ Elapse
  \/ HostConnect
  \/ SerialData
  \/ HostSamplingInterval
  \/ IntervalDue
  \/ HostSaved

SpecSerial == Init /\ [][SerialNext]_vars

\* The device and the serial host that reads what it prints.
DeviceNext ==
  \/ HostConnect
  \/ DeviceCommand
  \/ DeviceReading
  \/ HostSaved

SpecDevice == Init /\ [][DeviceNext]_vars

\* The reading log and the latest reading: the device's readings and the
\* clients' queries for the latest one.
ReadingsNext ==
  \/ StoreFlip
  \/ Tick
  \/ ArriveData
  \/ ArriveLatest
  \/ SubmitData
  \/ DataSaved
  \/ LatestQuery
  \/ LatestFound

SpecReadings == Init /\ [][ReadingsNext]_vars

\* The status log and the latest status: the device's status updates and the
\* clients' queries for the latest one.
StatusNext ==
  \/ StoreFlip
  \/ Tick
  \/ ArriveStatus
  \/ ArriveDeviceStatus
  \/ StatusUpdate
  \/ StatusSaved
  \/ DeviceStatusQuery
  \/ DeviceStatusFound

SpecStatus == Init /\ [][StatusNext]_vars

\* The three logs and everything that writes to them: the ingestion routes
\* of the API and the serial host, which share the reading log.
LogsNext ==
  \/ ArriveSample
  \/ ArriveStatusSample
  \/ ArriveAlert
  \/ SubmitSample
  \/ DataSaved
  \/ StatusSample
  \/ StatusSaved
  \/ SubmitAlert
  \/ AlertSaved
  \/ HostConnect
  \/ SerialSampled
  \/ IntervalSave
  \/ HostSaved

SpecLogs == Init /\ [][LogsNext]_vars

\* A history query, for every period: the application starts with one history
\* query waiting in the middleware, at some time, over some reading log, and
\* takes on no other request (nreq = MaxRequests).
HistoryInit ==
  /\ now \in HistoryTimes
  /\ storeUp \in BOOLEAN
  /\ dbConnected = FALSE
  /\ cachedConnection = FALSE
  /\ host = HostInit
  /\ arduino = ArduinoInit
  /\ alertLog = <<>>
  /\ commandQueue = JsNull
  /\ latestSensorData = JsNull
  /\ latestDeviceStatus = JsNull
  /\ connectionStatus = [lastDataReceived |-> JsNull,
                         lastStatusUpdate |-> JsNull,
                         lastCommandPoll |-> JsNull,
                         totalDataReceived |-> 0,
                         totalCommandsSent |-> 0,
                         isConnected |-> FALSE]
  /\ sensorLog \in HistoryLogs(now)
  /\ statusLog = <<>>
  /\ \/ \E p \in PeriodInputs, l \in LimitInputs :
          reqs = SetToBag({Req("connecting", "history",
                               [period |-> p, limit |-> l], FALSE)})
     \/ \E r \in RangeInputs :
          reqs = SetToBag({Req("connecting", "range", r, FALSE)})
  /\ nreq = MaxRequests
  /\ nresp = 0
  /\ lastResp = NoResp
  /\ lastEnq = JsNull
  /\ polledSince = FALSE
  /\ pollsNonEmpty = 0
  /\ overwritten = JsNull

\* A client asks for the readings of a period.
ArriveHistory == \E h \in HistoryArrivals : Accept("history", h)

\* A client asks for the readings of an explicit range.
ArriveRange == \E r \in RangeArrivals : Accept("range", r)

HistoryNext ==
  \/ StoreFlip
  \/ HistoryQuery
  \/ HistoryFound
  \/ RangeQuery
  \/ RangeFound

SpecHistory == HistoryInit /\ [][HistoryNext]_vars

\* The whole application.
Next ==
  \/ MailboxNext
  \/ ConnectivityNext
  \/ ArriveHistory
  \/ ArriveRange
  \/ HistoryNext
  \/ ReadingsNext
  \/ StatusNext
  \/ LogsNext

Spec == Init /\ [][Next]_vars

\* ================================================================= claims
\* What a step did, read off the response it sent.
Answered(kind) == nresp' = nresp + 1 /\ lastResp'.kind = kind
PollAnswered == Answered("poll")
EnqueueAnswered ==
  /\ nresp' = nresp + 1
  /\ lastResp'.kind \in EnqueueKinds \cup {"command", "interval"}
  /\ lastResp'.status = 200

\* ---------------------------------------------------------------------- C1
\* C1: the first poll answered after a successful enqueue of C, with no other
\* enqueue in between, returns C, and C is a non-empty command; every poll
\* answered after that one and before the next enqueue returns null.
C1_EnqueueThenPollOnce ==
  [][ /\ PollAnswered =>
           lastResp'.command = (IF polledSince THEN JsNull ELSE lastEnq)
      /\ EnqueueAnswered => (Truthy(lastEnq') /\ ~polledSince') ]_vars

\* An enqueue, a poll that returned the command, and a second poll that
\* returned null have been answered, in this order.
C1_Witness ==
  /\ nresp = 3
  /\ lastEnq # JsNull
  /\ pollsNonEmpty = 1
  /\ polledSince
  /\ lastResp.kind = "poll"
  /\ lastResp.command = JsNull

\* ---------------------------------------------------------------------- C2
\* C2: whatever the interleaving of the requests in flight, a poll answers with
\* the pending command exactly when one is pending, and leaves the mailbox
\* empty; so of several polls that were in flight over one pending command,
\* the first answered gets it and each of the others (a poll that saw the
\* command pending when it arrived, answered after another poll and no new
\* enqueue) gets null.
C2_ConcurrentPolls ==
  [][ PollAnswered =>
        /\ commandQueue' = JsNull
        /\ Truthy(commandQueue) => lastResp'.command = commandQueue
        /\ ~Truthy(commandQueue) => lastResp'.command = JsNull
        /\ (lastResp'.concurrent /\ polledSince) => lastResp'.command = JsNull
        /\ polledSince' ]_vars

\* Two polls both arrived while the command was pending; one was answered with
\* it, and now the other has been answered with null.
C2_Witness ==
  /\ lastResp.kind = "poll"
  /\ lastResp.concurrent
  /\ lastResp.command = JsNull
  /\ pollsNonEmpty = 1
  /\ commandQueue = JsNull
  /\ polledSince

\* ---------------------------------------------------------------------- C3
\* The command each shortcut route enqueues.
ShortcutCommands ==
  [read |-> {JsStr("READ")},
   interval |-> {JsStr("INTERVAL:1000"), JsStr("INTERVAL:2000")},
   tempEnable |-> {JsStr("TEMP:ON")},
   tempDisable |-> {JsStr("TEMP:OFF")},
   lightEnable |-> {JsStr("LIGHT:ON")},
   lightDisable |-> {JsStr("LIGHT:OFF")},
   statusRequest |-> {JsStr("STATUS")}]

\* C3: the mailbox holds nothing or one command, the one enqueued last; a
\* successful enqueue by any route leaves exactly its own command in the
\* mailbox whatever was pending; a poll returns null or the command enqueued
\* last, never a command that a later enqueue overwrote.
C3_SingleSlotOverwrite ==
  [][ /\ commandQueue' \in {JsNull, lastEnq'}
      /\ EnqueueAnswered =>
           /\ commandQueue' = lastResp'.enqueued
           /\ lastResp'.kind # "command" =>
                lastResp'.enqueued \in ShortcutCommands[lastResp'.kind]
      /\ PollAnswered =>
           /\ lastResp'.command \in {JsNull, lastEnq}
           /\ (overwritten # JsNull /\ overwritten # lastEnq) =>
                lastResp'.command # overwritten ]_vars

\* An enqueue replaced a different pending command, and the poll answered
\* after it returned the new one.
C3_Witness ==
  /\ overwritten # JsNull
  /\ overwritten # lastEnq
  /\ lastResp.kind = "poll"
  /\ lastResp.command = lastEnq
  /\ commandQueue = JsNull

\* ---------------------------------------------------------------------- C4
\* The command a request to POST /api/device/command carried, read off its
\* answer.
AnsweredCommand == IF lastResp'.status = 400 THEN lastResp'.body ELSE lastResp'.enqueued

\* C4: an enqueue whose command is absent or the empty string is answered 400
\* and changes neither the mailbox nor what the next poll will return.
C4_EmptyCommandRejected ==
  [][ (Answered("command") /\ AnsweredCommand \in {JsUndefined, JsStr("")}) =>
        /\ lastResp'.status = 400
        /\ commandQueue' = commandQueue
        /\ PollCommand(commandQueue') = PollCommand(commandQueue)
        /\ UNCHANGED <<storeUp, host, arduino, lastEnq, polledSince>> ]_vars

\* An empty enqueue was rejected while a command was pending, and that command
\* is still pending.
C4_Witness ==
  /\ lastResp.kind = "command"
  /\ lastResp.status = 400
  /\ Truthy(commandQueue)
  /\ commandQueue = lastEnq
  /\ ~polledSince

\* ---------------------------------------------------------------------- C5
\* C5: totalCommandsSent is the number of polls answered so far with a
\* non-null command.
C5_CounterCountsDeliveries == connectionStatus.totalCommandsSent = pollsNonEmpty

\* A poll delivered a command and the enqueue answered after it left the
\* counter at 1.
C5_Witness ==
  /\ connectionStatus.totalCommandsSent = 1
  /\ pollsNonEmpty = 1
  /\ lastResp.kind = "read"
  /\ Truthy(commandQueue)
  /\ ~polledSince

\* ---------------------------------------------------------------------- C6
SnapshotAnswered == Answered("connection")

\* The later of two timestamps, either of which may be null.
LaterOf(a, b) ==
  IF a = JsNull THEN b
  ELSE IF b = JsNull THEN a
  ELSE IF a.v >= b.v THEN a ELSE b

\* C6: a snapshot reports isConnected = (now - max(lastDataReceived,
\* lastCommandPoll)) < 60 s, and false when neither timestamp exists.
C6_LivenessFromLatestSignal ==
  [][ SnapshotAnswered =>
        LET last == LaterOf(connectionStatus.lastDataReceived,
                            connectionStatus.lastCommandPoll)
        IN  lastResp'.isConnected = (last # JsNull /\ now - last.v < 60000) ]_vars

\* ---------------------------------------------------------------------- C7
\* C7: when no command poll has been recorded, a snapshot reports isConnected =
\* true exactly when a reading has been recorded less than 60 s ago: true at an
\* age of 30 s, false at 60 s and at 90 s, false when nothing was recorded.
C7_LivenessFromReadingOnly ==
  [][ (SnapshotAnswered /\ connectionStatus.lastCommandPoll = JsNull) =>
        LET reading == connectionStatus.lastDataReceived
        IN  /\ reading = JsNull => ~lastResp'.isConnected
            /\ reading # JsNull =>
                 /\ lastResp'.isConnected = (now - reading.v < 60000)
                 /\ now - reading.v = 30000 => lastResp'.isConnected
                 /\ now - reading.v \in {60000, 90000} => ~lastResp'.isConnected ]_vars

\* A snapshot taken exactly 60 s after the only reading, with no poll ever
\* recorded, reported the device as not connected.  (No request is in flight
\* and the snapshot is the last answer, so it was taken after the reading; a
\* snapshot taken earlier than 60 s after it would have reported true.)
C7_Witness ==
  /\ lastResp.kind = "connection"
  /\ ~lastResp.isConnected
  /\ reqs = EmptyBag
  /\ connectionStatus.lastCommandPoll = JsNull
  /\ connectionStatus.lastDataReceived # JsNull
  /\ connectionStatus.totalDataReceived = 1
  /\ now - connectionStatus.lastDataReceived.v = 60000

\* ---------------------------------------------------------------------- C8
\* A status update is stamped in this step.
StatusStamped ==
  \E q \in BagToSet(reqs') :
    /\ q.kind = "statusUpdate"
    /\ q.pc = "saving"
    /\ CopiesIn(q, reqs') > CopiesIn(q, reqs)

\* The times of a run.
Times == { k * TickMs : k \in 0..MaxTicks }

\* C8: a status update, when it is stamped and when its insert settles, leaves
\* what a snapshot would report unchanged at every time; and a snapshot of a
\* device from which no reading and no poll was ever recorded reports not
\* connected, whatever status updates it sent.
C8_StatusIgnoredForLiveness ==
  [][ /\ (StatusStamped \/ Answered("statusUpdate")) =>
           \A t \in Times :
             IsCurrentlyConnected(connectionStatus', t)
               = IsCurrentlyConnected(connectionStatus, t)
      /\ ( /\ SnapshotAnswered
           /\ connectionStatus.lastDataReceived = JsNull
           /\ connectionStatus.lastCommandPoll = JsNull ) =>
           ~lastResp'.isConnected ]_vars

\* A device sent a status update and nothing else, and the snapshot taken less
\* than 60 s later reported it as not connected.
C8_Witness ==
  /\ lastResp.kind = "connection"
  /\ ~lastResp.isConnected
  /\ reqs = EmptyBag
  /\ connectionStatus.lastStatusUpdate # JsNull
  /\ now - connectionStatus.lastStatusUpdate.v < 60000
  /\ connectionStatus.lastDataReceived = JsNull
  /\ connectionStatus.lastCommandPoll = JsNull

\* ---------------------------------------------------------------------- C9
\* The history queries that reached the reading log, and the answer to one.
HistoryWindows ==
  { q.body : q \in { x \in BagToSet(reqs) : x.kind = "history" /\ x.pc = "finding" } }
    \cup (IF lastResp.kind = "history" /\ lastResp.status = 200
          THEN {lastResp} ELSE {})

\* The duration, in seconds, that each named period stands for.
NamedSeconds ==
  [p \in NamedPeriods |->
     CASE p \in {P1m, P1minute} -> 60
       [] p \in {P5m, P5minutes} -> 300
       [] p \in {P15m, P15minutes} -> 900
       [] p \in {P30m, P30minutes} -> 1800
       [] p \in {P1h, P1hour} -> 3600
       [] p \in {P6h, P6hours} -> 21600
       [] p \in {P1d, P1day} -> 86400
       [] p \in {P1w, P1week} -> 604800]

UnitSeconds == [u \in {"m", "h", "d"} |-> CASE u = "m" -> 60 [] u = "h" -> 3600 [] u = "d" -> 86400]

\* The positive integers written in the custom periods that are tried.
CustomValues == (1..MaxPeriodValue) \cup {24, 60, 168, 1440}

\* A named period and the custom periods that stand for the same duration.
SamePeriods ==
  { <<P1m, <<1, "m">>>>, <<P5m, <<5, "m">>>>, <<P1h, <<60, "m">>>>,
    <<P1hour, <<60, "m">>>>, <<P6h, <<6, "h">>>>, <<P1d, <<24, "h">>>>,
    <<P1d, <<1440, "m">>>>, <<P1w, <<7, "d">>>>, <<P1week, <<168, "h">>>> }

\* C9: for every named period, and for every period <positive integer><unit>
\* with unit m, h or d, the window of a history query ends at the time of the
\* request and starts the period's duration earlier (the integer times 60 s,
\* 3600 s or 86400 s; 1w is 7 days), the request is not refused, and a named
\* period and the equivalent custom period give the same window.
C9_WindowOfValidPeriod ==
  /\ \A w \in HistoryWindows :
       /\ w.endTime = now
       /\ w.period \in NamedPeriods =>
            w.startTime = now - NamedSeconds[w.period] * 1000
       /\ \A v \in CustomValues, u \in {"m", "h", "d"} :
            w.period = JsChars(Decimal(v) \o <<u>>) =>
              w.startTime = now - v * UnitSeconds[u] * 1000
  /\ (lastResp.kind = "history" /\ lastResp.status = 400) =>
       /\ lastResp.period \notin NamedPeriods
       /\ \A v \in CustomValues, u \in {"m", "h", "d"} :
            lastResp.period # JsChars(Decimal(v) \o <<u>>)
  /\ \A s \in SamePeriods :
       ResolveWindow(s[1], now)
         = ResolveWindow(JsChars(Decimal(s[2][1]) \o <<s[2][2]>>), now)

\* The query for the last 10 hours was answered with the readings of the
\* window that starts 36000 s before the request.
C9_Witness ==
  /\ lastResp.kind = "history"
  /\ lastResp.status = 200
  /\ lastResp.period = JsChars(<<"1", "0", "h">>)
  /\ lastResp.startTime = now - 36000000
  /\ lastResp.endTime = now
  /\ lastResp.count >= 1

\* --------------------------------------------------------------------- C10
\* <integer><m|h|d>: a numeral and a unit, and nothing else.
IntegerUnitForm(cs) ==
  \E n \in 1..Len(cs) :
    /\ n + 1 = Len(cs)
    /\ \A k \in 1..n : cs[k] \in {"0", "1", "2", "3", "4", "5", "6", "7", "8", "9"}
    /\ cs[n + 1] \in {"m", "h", "d"}

\* The periods that name no window.
InvalidPeriod(p) ==
  \/ p = JsUndefined
  \/ /\ p \notin NamedPeriods
     /\ ~IntegerUnitForm(p.v)

\* C10: a history query whose period is omitted, or is neither a named period
\* nor <integer><m|h|d>, is answered with a client error (400) and never
\* reaches the reading log.
C10_InvalidPeriodRefused ==
  /\ \A q \in BagToSet(reqs) :
       (q.kind = "history" /\ q.pc = "finding") => ~InvalidPeriod(q.body.period)
  /\ (lastResp.kind = "history" /\ InvalidPeriod(lastResp.period)) =>
       lastResp.status = 400

\* The query for the period "2w" was refused with 400, with nothing left in
\* flight.
C10_Witness ==
  /\ lastResp.kind = "history"
  /\ lastResp.status = 400
  /\ lastResp.period = JsChars(<<"2", "w">>)
  /\ reqs = EmptyBag

\* --------------------------------------------------------------------- C11
\* The custom periods whose value is zero, and those whose value is negative.
ZeroPeriods ==
  { JsChars(zs \o <<u>>) : zs \in {<<"0">>, <<"0", "0">>}, u \in {"m", "h", "d"} }

NegativePeriods ==
  { JsChars(<<"-">> \o Decimal(v) \o <<u>>) :
      v \in 1..MaxPeriodValue, u \in {"m", "h", "d"} }

\* C11 as stated: a custom period with a zero or a negative value is not
\* refused, and its window is start = now, end = now.
C11_ZeroOrNegativeParses ==
  /\ \A w \in HistoryWindows :
       w.period \in ZeroPeriods \cup NegativePeriods =>
         w.startTime = now /\ w.endTime = now
  /\ (lastResp.kind = "history"
        /\ lastResp.period \in ZeroPeriods \cup NegativePeriods) =>
       lastResp.status # 400

\* C11, amended: a custom period with a zero value is not refused, and its
\* window is start = now, end = now; a custom period with a negative value
\* is refused with 400 and never reaches the reading log.
C11_ZeroParsesNegativeRefused ==
  /\ \A w \in HistoryWindows :
       /\ w.period \in ZeroPeriods => w.startTime = now /\ w.endTime = now
       /\ w.period \notin NegativePeriods
  /\ (lastResp.kind = "history" /\ lastResp.period \in ZeroPeriods) =>
       lastResp.status # 400
  /\ (lastResp.kind = "history" /\ lastResp.period \in NegativePeriods) =>
       lastResp.status = 400

\* The query for the period "0m" was answered with the window that starts and
\* ends at the time of the request.
C11_Witness ==
  /\ lastResp.kind = "history"
  /\ lastResp.status = 200
  /\ lastResp.period = JsChars(<<"0", "m">>)
  /\ lastResp.startTime = now
  /\ lastResp.endTime = now

\* --------------------------------------------------------------------- C12
\* The answer to a history or a range query.
ReadingsAnswered ==
  IF lastResp.kind \in {"history", "range"} /\ lastResp.status = 200
  THEN {lastResp} ELSE {}

\* Newest first.
Descending(data) ==
  \A i, j \in 1..Len(data) : i < j => data[i].timestamp >= data[j].timestamp

\* The limit that the claim lets a query ask for: the positive numeral it gave,
\* or else the default of its route.
LimitAsked(r) ==
  LET default == IF r.kind = "history" THEN 10000 ELSE 1000
      positive == /\ r.rawLimit \notin {JsUndefined, JsChars(<<>>)}
                  /\ r.rawLimit.v[1] # "-"
                  /\ r.rawLimit # JsChars(<<"0">>)
  IN  IF positive THEN ParseDigits(r.rawLimit.v) ELSE default

\* The stored readings that a query selects.
Selected(r) ==
  IF r.kind = "history" THEN InRange(sensorLog, r.startTime, r.endTime)
  ELSE IF r.query.filtered
       THEN InRange(sensorLog, r.query.startTime, r.query.endTime)
       ELSE 1..Len(sensorLog)

\* C12: the readings returned by a history or a range query are sorted newest
\* first and are the first `limit` of the selected readings, where the default
\* (10000 for history, 1000 for range) stands in for a limit that is
\* unspecified, zero or negative.
C12_SortedAndCapped ==
  \A r \in ReadingsAnswered :
    /\ Descending(r.data)
    /\ Len(r.data) <= LimitAsked(r)
    /\ Len(r.data) = IF Cardinality(Selected(r)) <= LimitAsked(r)
                     THEN Cardinality(Selected(r)) ELSE LimitAsked(r)

\* --------------------------------------------------------------------- C13
\* The answer to a history query.
HistoryAnswered ==
  IF lastResp.kind = "history" /\ lastResp.status = 200 THEN {lastResp} ELSE {}

\* C13: every reading that a history query returns is a stored reading with
\* start <= timestamp <= now for the window of the query, the count reported
\* is the number of readings returned, and a window in which no stored reading
\* falls is answered 200 with no readings and count 0.
C13_HistoryWithinWindow ==
  \A r \in HistoryAnswered :
    /\ r.endTime = now
    /\ \A k \in 1..Len(r.data) :
         /\ \E j \in 1..Len(sensorLog) : sensorLog[j] = r.data[k]
         /\ r.startTime <= r.data[k].timestamp
         /\ r.data[k].timestamp <= now
    /\ r.count = Len(r.data)
    /\ (\A j \in 1..Len(sensorLog) :
          sensorLog[j].timestamp < r.startTime \/ sensorLog[j].timestamp > now)
         => r.data = <<>> /\ r.count = 0

\* A history query over the last minute of a log whose readings are all older
\* was answered 200 with no readings and count 0.
C13_Witness ==
  /\ lastResp.kind = "history"
  /\ lastResp.status = 200
  /\ lastResp.period = P1m
  /\ sensorLog # <<>>
  /\ lastResp.data = <<>>
  /\ lastResp.count = 0

\* --------------------------------------------------------------------- C14
\* The readings that a body without one of its fields would be stored as.
IncompleteReadings ==
  { SensorReading(b) :
      b \in { x \in DataInputs : JsUndefined \in {x.temperature, x.humidity, x.ldr} } }

ReadingOf(doc) ==
  [t |-> "object", temperature |-> doc.temperature, humidity |-> doc.humidity,
   ldr |-> doc.ldr]

\* C14: a reading without its temperature, humidity or light level is refused
\* as a client error and nothing of it is kept: the step that answers it
\* leaves the reading log, the cache, lastDataReceived and totalDataReceived
\* as they were, no insert is pending for it, and only such a reading is
\* refused.
C14_IncompleteReadingRefused ==
  [][ /\ (Answered("data") /\ lastResp'.status = 400) =>
           /\ JsUndefined \in {lastResp'.body.temperature,
                               lastResp'.body.humidity, lastResp'.body.ldr}
           /\ UNCHANGED <<sensorLog, latestSensorData, connectionStatus>>
      /\ latestSensorData' \notin IncompleteReadings
      /\ \A k \in 1..Len(sensorLog') : ReadingOf(sensorLog'[k]) \notin IncompleteReadings
      /\ \A q \in BagToSet(reqs') :
           (q.kind = "data" /\ q.pc = "saving") =>
             ReadingOf(q.body) \notin IncompleteReadings ]_vars

\* After one reading was stored, a reading without its humidity was refused:
\* the log, the cache and the counter are those of the stored reading.
C14_Witness ==
  /\ lastResp.kind = "data"
  /\ lastResp.status = 400
  /\ lastResp.body.humidity = JsUndefined
  /\ Len(sensorLog) = 1
  /\ latestSensorData = ReadingOf(sensorLog[1])
  /\ connectionStatus.totalDataReceived = 1
  /\ reqs = EmptyBag

\* --------------------------------------------------------------------- C15
\* A reading's insert is answered with success in this step.
IngestAnswered == Answered("data") /\ lastResp'.status = 200

\* The latest-reading query answered last was made right after a reading's
\* insert had been answered with success, and no reading was stored between
\* the query's arrival and its answer.
LatestAfterIngest ==
  /\ lastResp.kind = "latest"
  /\ lastResp.status = 200
  /\ lastResp.seen.after # JsNull
  /\ lastResp.seen.stored = Len(sensorLog)

SameValues(answer, doc) ==
  /\ answer.temperature = doc.temperature
  /\ answer.humidity = doc.humidity
  /\ answer.ldr = doc.ldr

\* C15 as stated: a successful ingestion appends exactly one reading, and a
\* latest-reading query made after it and answered before any other reading
\* is stored returns exactly the ingested values.
C15_LatestIsIngested ==
  /\ [][IngestAnswered => sensorLog' = Append(sensorLog, lastResp'.doc)]_vars
  /\ [](LatestAfterIngest =>
          /\ lastResp.answer.from = "log"
          /\ SameValues(lastResp.answer, lastResp.seen.after))

\* The ingested reading is the newest of the log.
NewestStored(doc) ==
  \E k \in 1..Len(sensorLog) :
    /\ sensorLog[k] = doc
    /\ \A j \in 1..Len(sensorLog) :
         j # k => sensorLog[j].timestamp < doc.timestamp

\* C15, amended: a successful ingestion appends exactly one reading, and a
\* latest-reading query made after it and answered before any other reading
\* is stored returns the values of a stored reading of the newest timestamp:
\* the ingested values when every other stored reading is older than the
\* ingested one.
C15_LatestIsNewestStored ==
  /\ [][IngestAnswered => sensorLog' = Append(sensorLog, lastResp'.doc)]_vars
  /\ [](LatestAfterIngest =>
          /\ lastResp.answer.from = "log"
          /\ \E k \in 1..Len(sensorLog) :
               /\ SameValues(lastResp.answer, sensorLog[k])
               /\ lastResp.answer.timestamp = sensorLog[k].timestamp
               /\ \A j \in 1..Len(sensorLog) :
                    sensorLog[j].timestamp <= sensorLog[k].timestamp
          /\ NewestStored(lastResp.seen.after) =>
               SameValues(lastResp.answer, lastResp.seen.after))

\* Two readings of different values were stored, the second one later than the
\* first, and the query made after the second was answered with its values.
C15_Witness ==
  /\ LatestAfterIngest
  /\ Len(sensorLog) = 2
  /\ sensorLog[1].timestamp < sensorLog[2].timestamp
  /\ sensorLog[1].temperature # sensorLog[2].temperature
  /\ lastResp.seen.after = sensorLog[2]
  /\ SameValues(lastResp.answer, sensorLog[2])

\* --------------------------------------------------------------------- C16
\* C16: a latest-reading query that the store answers returns a newest entry
\* of the reading log whenever the log is not empty, whatever the cache holds;
\* it returns the cached reading only when the log is empty and the cache is
\* set; and when the log is empty and the cache is not set it answers, without
\* an error, that there is no data yet.
C16_LatestFromLogFirst ==
  [][ (Answered("latest") /\ lastResp'.status = 200) =>
        LET answer == lastResp'.answer
        IN  /\ answer.status = 200
            /\ sensorLog # <<>> =>
                 /\ answer.from = "log"
                 /\ \E k \in 1..Len(sensorLog) :
                      /\ SameValues(answer, sensorLog[k])
                      /\ answer.timestamp = sensorLog[k].timestamp
                      /\ \A j \in 1..Len(sensorLog) :
                           sensorLog[j].timestamp <= sensorLog[k].timestamp
            /\ answer.from = "cache" =>
                 /\ sensorLog = <<>>
                 /\ latestSensorData # JsNull
                 /\ SameValues(answer, latestSensorData)
            /\ (sensorLog = <<>> /\ latestSensorData = JsNull) =>
                 answer.from = "none" ]_vars

\* The insert of the only reading failed, and the query that followed was
\* answered with the cached reading.
C16_Witness ==
  /\ lastResp.kind = "latest"
  /\ lastResp.status = 200
  /\ lastResp.answer.from = "cache"
  /\ sensorLog = <<>>
  /\ latestSensorData # JsNull
  /\ SameValues(lastResp.answer, latestSensorData)

\* --------------------------------------------------------------------- C17
\* C17: a latest-status query that is answered returns a newest entry of the
\* status log whenever that log is not empty, and the cached status only when
\* the log is empty: never a cached status that differs from the newest entry
\* of a log that is not empty.
C17_StatusFromLogFirst ==
  [][ (Answered("deviceStatus") /\ lastResp'.status = 200) =>
        /\ statusLog # <<>> =>
             \E k \in 1..Len(statusLog) :
               /\ lastResp'.value = statusLog[k].status
               /\ \A j \in 1..Len(statusLog) :
                    statusLog[j].timestamp <= statusLog[k].timestamp
        /\ (statusLog = <<>> /\ latestDeviceStatus = JsNull) =>
             lastResp'.from = "none" ]_vars

\* --------------------------------------------------------------------- C18
\* Every entry of log a is, unchanged and at its place, an entry of log b.
Extends(b, a) == Len(a) <= Len(b) /\ SubSeq(b, 1, Len(a)) = a

\* C19: a store call of a request that fails is answered to that request with
\* status 500, the request is over and the logs stay as they were; and a store
\* call succeeds whenever the store can be reached at that time and the last
\* connection attempt of the middleware did not fail, whatever failed before.
StoreCallAnswered ==
  /\ nresp' = nresp + 1
  /\ lastResp'.kind \in {"data", "latest"}
  /\ lastResp'.status # 400

C20_ProcessKeepsRunning == host.running

\* C18: the reading, status and alert logs are append-only: every step of the
\* API and of the serial host leaves each entry of each log as it was.
C18_LogsAppendOnly ==
  [][ /\ Extends(sensorLog', sensorLog)
      /\ Extends(statusLog', statusLog)
      /\ Extends(alertLog', alertLog) ]_vars

\* Each log holds an entry, and the reading log holds a reading of the API and,
\* after it, one of the serial host.
C18_Witness ==
  /\ Len(sensorLog) >= 2
  /\ sensorLog[1].temperature = JsNum(22)
  /\ sensorLog[2].temperature = JsNum(24)
  /\ statusLog # <<>>
  /\ alertLog # <<>>

\* C21: whenever no request is in flight, totalDataReceived is the number of
\* readings in the reading log, and the latest-reading cache, when it is set,
\* holds the values of a reading in the log.
Persisted(reading) ==
  \E i \in 1..Len(sensorLog) : ReadingOf(sensorLog[i]) = reading

C21_EffectsOnlyOnSuccess ==
  reqs = EmptyBag =>
    /\ connectionStatus.totalDataReceived = Len(sensorLog)
    /\ Truthy(latestSensorData) => Persisted(latestSensorData)

\* The reading format of the specification,
\* `Temperature: <float> °C, Humidity: <float> %, LDR Output: <int>`: a float
\* is an optional minus sign, digits and an optional fraction, an int is
\* digits, and the line holds nothing else but the carriage return at its end.
FloatLen(s, i) ==
  LET sign == IF i <= Len(s) /\ s[i] = "-" THEN 1 ELSE 0
      n == Run(s, i + sign, FALSE)
      m == IF i + sign + n <= Len(s) /\ s[i + sign + n] = "."
           THEN Run(s, i + sign + n + 1, FALSE) ELSE 0
  IN  IF n = 0 THEN 0 ELSE sign + n + (IF m > 0 THEN 1 + m ELSE 0)

FormatFields(s) ==
  LET a == 1 + Len(TemperatureLit)
      n1 == FloatLen(s, a)
      b == a + n1 + Len(HumidityLit)
      n2 == FloatLen(s, b)
      c == b + n2 + Len(LdrLit)
      n3 == Run(s, c, FALSE)
  IN  << <<a, n1>>, <<b, n2>>, <<c, n3>> >>

InFormat(s) ==
  LET g == FormatFields(s)
      e == g[3][1] + g[3][2]
  IN  /\ HasAt(s, 1, TemperatureLit)
      /\ g[1][2] >= 1
      /\ HasAt(s, g[1][1] + g[1][2], HumidityLit)
      /\ g[2][2] >= 1
      /\ HasAt(s, g[2][1] + g[2][2], LdrLit)
      /\ g[3][2] >= 1
      /\ \/ e = Len(s) + 1
         \/ e = Len(s) /\ s[e] = "CR"

\* The value of a float of the format: below zero when it starts with a sign.
FloatValue(cs) ==
  IF cs[1] = "-"
  THEN [t |-> "number", below |-> ParseFloatChars(Tail(cs))]
  ELSE ParseFloatChars(cs)

\* The three values of a line in the format.
FormatReading(s) ==
  LET g == FormatFields(s)
      field(k) == SubSeq(s, g[k][1], g[k][1] + g[k][2] - 1)
  IN  [t |-> "object",
       temperature |-> FloatValue(field(1)),
       humidity |-> FloatValue(field(2)),
       ldr |-> JsNum(ParseDigits(field(3)))]

\* C22: in the serial host, the receipt of a line in the reading format sets
\* the latest-reading cache to the three values of the line and starts the
\* insert of one reading with these values; the receipt of any other line
\* leaves the cache, the pending inserts and the reading log as they were.
C22_OnlyReadingLinesChangeState ==
  [][ \A data \in SerialLines :
        SerialDataOf({data}) =>
          IF InFormat(data)
          THEN /\ host'.latestSensorData = FormatReading(data)
               /\ \E doc \in BagToSet(host'.saving) :
                    /\ ReadingOf(doc) = FormatReading(data)
                    /\ host'.saving = host.saving (+) SetToBag({doc})
               /\ sensorLog' = sensorLog
          ELSE /\ host'.latestSensorData = host.latestSensorData
               /\ host'.saving = host.saving
               /\ sensorLog' = sensorLog
    ]_vars

\* C23: in the serial host each recognized reading line is persisted once, so
\* the entries appended to the reading log are as many as the recognized lines
\* whose insert succeeded, and never more than the recognized lines received.
C23_EachReadingPersistedOnce == Len(sensorLog) <= host.received

\* The answer to a range query.
RangeAnswered ==
  IF lastResp.kind = "range" /\ lastResp.status = 200 THEN {lastResp} ELSE {}

\* A bound of the range that the query gives.
Given(x) == x \notin {JsUndefined, JsStr("")}

\* The stored readings that a range query asks for: those from start to end
\* when it gives both, every stored reading when it does not.
Wanted(asked) ==
  IF Given(asked.start) /\ Given(asked.end)
  THEN { k \in 1..Len(sensorLog) :
           /\ NewDate(asked.start).v <= sensorLog[k].timestamp
           /\ sensorLog[k].timestamp <= NewDate(asked.end).v }
  ELSE 1..Len(sensorLog)

\* C24: the readings returned by a range query are, newest first, the most
\* recent of the stored readings with start <= timestamp <= end when the query
\* gives start and end, and the most recent of all stored readings when it
\* does not; with a positive limit, or the default of 1000 when none is given,
\* they are as many as the limit allows.
C24_RangeFilter ==
  \A r \in RangeAnswered :
    LET asked == r.query.asked
        wanted == Wanted(asked)
        limit == IF Truthy(asked.limit) THEN ParseIntString(asked.limit.v)
                 ELSE 1000
    IN  /\ Descending(r.data)
        /\ \A k \in 1..Len(r.data) : \E j \in wanted : sensorLog[j] = r.data[k]
        /\ \A j \in wanted :
             (\A k \in 1..Len(r.data) : r.data[k] # sensorLog[j]) =>
               \A k \in 1..Len(r.data) :
                 r.data[k].timestamp >= sensorLog[j].timestamp
        /\ limit > 0 =>
             Len(r.data) = IF Cardinality(wanted) <= limit
                           THEN Cardinality(wanted) ELSE limit

\* A range query with both bounds is answered, out of five stored readings,
\* with the readings of the bounds themselves and the one between them.
C24_Witness ==
  /\ lastResp.kind = "range"
  /\ lastResp.status = 200
  /\ Given(lastResp.query.asked.start)
  /\ Given(lastResp.query.asked.end)
  /\ Len(sensorLog) = 5
  /\ Len(lastResp.data) = 3
  /\ lastResp.data[1].timestamp = NewDate(lastResp.query.asked.end).v
  /\ lastResp.data[3].timestamp = NewDate(lastResp.query.asked.start).v

\* C25: in the serial host, once the sampling interval was set to N seconds,
\* the periodic saves follow it: never more than N seconds pass since the
\* interval was set, or since the periodic save before, without a periodic
\* save.
C25_SavesFollowInterval ==
  host.running => now - host.since <= host.SAVE_INTERVAL

\* A sensor of the device is switched off.
SwitchedOff(a) == ~a.readTempHumidity \/ ~a.readLight

\* The device has run printReadings() in this step: the readings line of its
\* new state is among the lines it printed.
ReadingsPrinted ==
  /\ arduino'.steps # arduino.steps
  /\ \E i \in 1..Len(arduino'.printed) :
       <<arduino'.printed[i]>> = printReadings(arduino')

\* C26: as long as a sensor of the device is switched off, nothing that the
\* device prints is taken for a reading by the serial host, which keeps its
\* latest reading as it was; and when both sensors are on, the readings that
\* the device prints of a temperature and a humidity that are numbers are
\* taken for a reading.
C26_SwitchedOffLinesIgnored ==
  [][ /\ (arduino'.steps # arduino.steps /\ SwitchedOff(arduino')) =>
           /\ host'.latestSensorData = host.latestSensorData
           /\ host'.received = host.received
      /\ ( /\ ReadingsPrinted
           /\ host.running
           /\ ~SwitchedOff(arduino')
           /\ ~arduino'.temperature.nan
           /\ ~arduino'.humidity.nan ) =>
           /\ host'.received = host.received + 1
           /\ Truthy(host'.latestSensorData)
    ]_vars

\* The part of C26 about the sensors that are off, alone: a step of the device
\* that leaves a sensor switched off leaves the host's latest reading alone.
SwitchedOffLinesIgnored ==
  [][ (arduino'.steps # arduino.steps /\ SwitchedOff(arduino')) =>
        /\ host'.latestSensorData = host.latestSensorData
        /\ host'.received = host.received
    ]_vars

\* The requests that await connectDB() in the connection middleware.
Connecting == { q \in BagToSet(reqs) : q.pc = "connecting" }
AwaitingConnect ==
  BagCardinality([q \in Connecting |-> CopiesIn(q, reqs)])

\* As long as no connection is cached, connectDB() goes past its reuse test,
\* so that every request that awaits it has called mongoose.connect().
SingleAttempt == ~cachedConnection => AwaitingConnect <= 1

\* Once a connection is cached, no request that arrives calls connectDB().
NoAttemptOnceConnected ==
  [][cachedConnection => AwaitingConnect' <= AwaitingConnect]_vars

\* As long as no connection is cached, a request that arrives calls
\* connectDB().
AttemptAfterFailure ==
  [][(nreq' = nreq + 1 /\ ~cachedConnection) =>
        AwaitingConnect' = AwaitingConnect + 1]_vars

\* C27: the connection is made once for the process: no two requests await a
\* mongoose.connect() of their own at a time, also when they arrive before the
\* first attempt has settled; once a connection is made no later request
\* starts an attempt; and as long as none is made, as after a failed attempt,
\* the next request starts one.
C27_SingleConnection ==
  /\ []SingleAttempt
  /\ NoAttemptOnceConnected
  /\ AttemptAfterFailure

====
